---- MODULE Spec2Model ----
(***************************************************************************)
(* State-machine model of src/src/server/name-server.c:                    *)
(*   - ns_answer_request (lines 29-104) run by concurrent reader threads   *)
(*     under liburcu read-side critical sections, against a zone database  *)
(*     whose versions are swapped by a writer;                             *)
(*   - the UDP worker udp_master (lines 1579-1686) with the processing     *)
(*     APIs udp_recvfrom_api, udp_recvmmsg_api, xdp_recvmmsg_api and       *)
(*     quic_recvfrom_api, and udp_handle (lines 839-884).                  *)
(***************************************************************************)
EXTENDS Integers, Sequences, FiniteSets, TLC

\* ------------------------------------------------------------------ bounds
MaxVersion == 2     \* zone database versions are 0..MaxVersion
MaxPktSize == 1     \* stands for KNOT_WIRE_MAX_PKTSIZE (buffer capacity), scaled down
BatchLen == 2       \* stands for RECVMMSG_BATCHLEN, scaled down
NFds == 2           \* file descriptors in the worker's fd set
MaxProduce == 2     \* the layer leaves PRODUCE/FAIL within this many produce calls

VARIABLES
    \* ---- zone database and its writer
    zdb_cur,        \* the published zone database version
    zdb_reclaimed,  \* versions whose memory has been freed
    wr_pc,          \* writer: "idle" | "grace"
    wr_old,         \* the version the writer is retiring
    wr_wait,        \* readers whose critical section was active at the swap
    \* ---- readers (one ns_answer_request call each at a time)
    rd_pc,          \* position in ns_answer_request
    rd_query,       \* the parsed query: [qname, qtype]
    rd_node,        \* const zn_node *node: NoNode or [ver, name]
    rd_answers,     \* const ldns_rr_list *answers: NoRRSet or [ver, name, type]
    rd_resp,        \* dnss_packet *response: NoResp or [nodever, answers, ref]
    rd_nest,        \* liburcu read-side nesting count of the thread
    rd_locks,       \* rcu_read_lock calls of the current execution
    rd_unlocks,     \* rcu_read_unlock calls of the current execution
    rd_lockver,     \* zdb_cur when the current execution took the lease
    rd_seen,        \* the version zdb_find_name dereferenced (-1: not yet)
    rd_ret,         \* return value of the finished execution
    rcu_uaf,        \* some reader accessed data of a reclaimed version
    rcu_unprot      \* some reader accessed zone data outside a critical section

nsvars == <<zdb_cur, zdb_reclaimed, wr_pc, wr_old, wr_wait, rd_pc, rd_query,
            rd_node, rd_answers, rd_resp, rd_nest, rd_locks, rd_unlocks,
            rd_lockver, rd_seen, rd_ret, rcu_uaf, rcu_unprot>>

VARIABLES
    \* ---- udp_master
    api,            \* the processing API chosen for the thread
    m_pc,           \* position of the worker in udp_master
    m_ret,          \* how udp_master returned
    cancelled,      \* the thread's cancellation flag (dt_is_cancelled)
    m_it,           \* fdset iterator: index of the fd being looked at
    m_pollin,       \* fd -> reported readable by the last fdset_poll
    m_ev,           \* API calls made by the current loop iteration, in order
    m_fin,          \* calls made after the finish: label, in order
    \* ---- the API's request structure
    rq_fd,          \* rq->fd
    rq_rcvd,        \* rq->rcvd
    rx,             \* RX slots: [iov_len, msg_len, namelen, controllen]
    tx,             \* TX slots: [iov_len, namelen]
    sent,           \* what the last udp_send transmitted and what was non-empty
    \* ---- udp_handle
    h_pc,           \* "idle" | "next" | "handled": where the API handle step is
    h_i,            \* position in the batch of the datagram being handled
    h_calls,        \* layer and arena calls of the last udp_handle, in order
    layer_state,    \* udp->layer.state
    h_final,        \* udp->layer.state as tested at line 873
    ans_size,       \* ans->size
    query,          \* the query packet: [ret, size, parsed0, parsed]
    arena,          \* objects allocated from udp->layer.mm since the last flush
    h_in,           \* what the last udp_handle was given: [flags, txcap]
    addrs           \* rq->addrs of the recvmmsg API: slot -> the datagram of the
                    \* batch whose source address it holds, 0 when cleared

udpaux == <<h_in, addrs>>

udpvars == <<api, m_pc, m_ret, cancelled, m_it, m_pollin, m_ev, m_fin, rq_fd,
             rq_rcvd, rx, tx, sent, h_pc, h_i, h_calls, layer_state, h_final,
             ans_size, query, arena, udpaux>>

VARIABLES
    \* ---- udp_pktinfo_handle on one received message
    pk_pc,          \* "call" | "done"
    pk_rx,          \* rx msghdr: [controllen, control]
    pk_tx,          \* tx msghdr: [controllen, control]
    pk_buf,         \* the control buffer both messages point at: the first cmsg
    pk_rcvd         \* the control buffer as recvmsg left it

pkvars == <<pk_pc, pk_rx, pk_tx, pk_buf, pk_rcvd>>

VARIABLES
    \* ---- event_notify and the NOTIFY layer
    nt_pc,          \* position in event_notify
    nt_conf,        \* the zone's notify remotes: address count of each
    nt_empty,       \* zone_contents_is_empty(zone->contents)
    nt_zone,        \* the zone: [name, soa], soa the apex SOA rrset
    nt_r,           \* the remote the iterator is at (1-based)
    nt_i,           \* i of the address loop
    nt_ret,         \* ret of the address loop
    nt_failed,      \* failed
    nt_log,         \* send_notify calls made for the current remote, in order
    nt_result,      \* return value of event_notify
    nt_serial,      \* zone->timers.last_notified_serial was set by this run
    nt_data,        \* layer->data: [zone, soa]
    nt_pkt,         \* the packet handed to the layer's produce
    nt_state,       \* the state returned by the NOTIFY layer's last callback
    nt_produced,    \* produce calls of the current request
    nt_resp,        \* the response last handed to the layer's consume
    nt_hist         \* per remote the iterator has left: [attempts, ok], the
                    \* send_notify calls made for it and whether one returned
                    \* KNOT_EOK

ntaux == <<nt_produced, nt_resp, nt_hist>>

ntvars == <<nt_pc, nt_conf, nt_empty, nt_zone, nt_r, nt_i, nt_ret, nt_failed, nt_log,
            nt_result, nt_serial, nt_data, nt_pkt, nt_state, ntaux>>

VARIABLES
    \* ---- the QUIC connection table of one worker
    q_pc,           \* "recv": before quic_recvfrom_recv, "after": it returned,
                    \* "crashed": the worker dereferenced a NULL connection
    q_table,        \* rq->conns->conns: bucket -> chain of entries, head first
    q_ub,           \* what the build makes of an out-of-range shift
    q_created,      \* DCID -> id of the first entry allocated for it, 0 if none
    q_last,         \* what the last quic_recvfrom_recv call did
    q_reply         \* what the worker sent after the last call

qvars == <<q_pc, q_table, q_ub, q_created, q_last, q_reply>>

VARIABLES
    \* ---- one ns_answer_request call and what it leaves in response_wire
    a_pc,           \* "call" | "returned" | "aborted" (assertion failed)
    a_ver,          \* the zone database version that is published
    a_empty_rcode,  \* the rcode dnss_create_response gives a response without records
    a_out,          \* what the call did: query, node, failure, return value
    a_wire          \* the contents of response_wire

avars == <<a_pc, a_ver, a_empty_rcode, a_out, a_wire>>

VARIABLES
    \* ---- one best_param call
    bp_pc,          \* "call" | "returned"
    bp_in,          \* the arguments: [str_null, str, len, tbl_null, tbl]
    bp_ret,         \* the return value: [code, pos]
    bp_unique       \* what was stored to *unique: "unset" | "true" | "false"

bpvars == <<bp_pc, bp_in, bp_ret, bp_unique>>

VARIABLES
    \* ---- one params_parse_wait call
    pw_pc,          \* "call" | "returned"
    pw_in,          \* the argument value: [null, str]
    pw_dst,         \* *dst
    pw_ret          \* the return value

pwvars == <<pw_pc, pw_in, pw_dst, pw_ret>>

auxvars == <<pkvars, ntvars, qvars, avars, bpvars, pwvars>>

vars == <<nsvars, udpvars, auxvars>>

\* The reader threads running ns_answer_request.
Readers == {1, 2}
Versions == 0..MaxVersion
QNames == {"a", "b"}
QTypes == {"A", "TXT"}
NoNode == [ver |-> -1, name |-> "none"]
NoRRSet == [ver |-> -1, name |-> "none", type |-> "none"]
NoResp == [nodever |-> -1, answers |-> NoRRSet, ref |-> -1]
NoQuery == [qname |-> "none", qtype |-> "none"]

\* The record types of a name in version v of the zone database (the zone
\* contents are input data): "a" always has an A rrset and a TXT rrset in odd
\* versions; "b" exists from version 1 on.
ZoneTypes(v, n) ==
    IF n = "a" THEN (IF v % 2 = 1 THEN {"A", "TXT"} ELSE {"A"})
    ELSE IF v >= 1 THEN {"TXT"} ELSE {}

\* zdb_find_name(nameserver->zone_db, qname): the node of qname in the version
\* that is published when the database pointer is dereferenced, or NULL.
zdb_find_name(v, n) ==
    IF ZoneTypes(v, n) = {} THEN NoNode ELSE [ver |-> v, name |-> n]

\* zn_find_rrset(node, qtype): the rrset of that type held by the node; it is
\* reached through the node, so belongs to the node's version.
zn_find_rrset(node, t) ==
    IF t \in ZoneTypes(node.ver, node.name)
    THEN [ver |-> node.ver, name |-> node.name, type |-> t]
    ELSE NoRRSet

\* A read of zone-owned data of version v by reader r.
Touch(r, v) ==
    /\ rcu_uaf' = (rcu_uaf \/ v \in zdb_reclaimed)
    /\ rcu_unprot' = (rcu_unprot \/ rd_nest[r] = 0)

NoTouch == UNCHANGED <<rcu_uaf, rcu_unprot>>

\* rcu_read_unlock(): leaving the outermost critical section ends the
\* thread's part in a pending grace period.
RcuUnlock(r) ==
    /\ rd_nest' = [rd_nest EXCEPT ![r] = @ - 1]
    /\ rd_unlocks' = [rd_unlocks EXCEPT ![r] = @ + 1]
    /\ wr_wait' = IF rd_nest[r] = 1 THEN wr_wait \ {r} ELSE wr_wait

NoUnlock == UNCHANGED <<rd_nest, rd_unlocks, wr_wait>>

\* ------------------------------------------------------------- the writer
\* Publish the next version and start waiting for the grace period: every
\* reader inside a critical section at the swap.
zdb_swap ==
    /\ wr_pc = "idle"
    /\ zdb_cur < MaxVersion
    /\ zdb_cur' = zdb_cur + 1
    /\ wr_old' = zdb_cur
    /\ wr_wait' = {r \in Readers : rd_nest[r] > 0}
    /\ wr_pc' = "grace"
    /\ UNCHANGED <<auxvars, udpvars, zdb_reclaimed, rd_pc, rd_query, rd_node, rd_answers, rd_resp,
                   rd_nest, rd_locks, rd_unlocks, rd_lockver, rd_seen, rd_ret,
                   rcu_uaf, rcu_unprot>>

\* The grace period is over: free the retired version.
zdb_reclaim ==
    /\ wr_pc = "grace"
    /\ wr_wait = {}
    /\ zdb_reclaimed' = zdb_reclaimed \cup {wr_old}
    /\ wr_pc' = "idle"
    /\ UNCHANGED <<auxvars, udpvars, zdb_cur, wr_old, wr_wait, rd_pc, rd_query, rd_node, rd_answers,
                   rd_resp, rd_nest, rd_locks, rd_unlocks, rd_lockver, rd_seen,
                   rd_ret, rcu_uaf, rcu_unprot>>

\* ------------------------------------------------ ns_answer_request, by step
\* Lines 35-38: parse the query; NULL or no question returns -1 at once.
dnss_parse_query(r) ==
    /\ rd_pc[r] = "idle"
    /\ \/ /\ rd_ret' = [rd_ret EXCEPT ![r] = -1]
          /\ rd_pc' = [rd_pc EXCEPT ![r] = "ret"]
          /\ UNCHANGED rd_query
       \/ \E n \in QNames, t \in QTypes :
             /\ rd_query' = [rd_query EXCEPT ![r] = [qname |-> n, qtype |-> t]]
             /\ rd_pc' = [rd_pc EXCEPT ![r] = "lock"]
             /\ UNCHANGED rd_ret
    /\ NoTouch /\ NoUnlock
    /\ UNCHANGED <<auxvars, udpvars, zdb_cur, zdb_reclaimed, wr_pc, wr_old, rd_node, rd_answers,
                   rd_resp, rd_locks, rd_lockver, rd_seen>>

\* Faulty variant: the rcu_read_lock() call is missing.
rcu_read_lock_missing(r) ==
    /\ rd_pc[r] = "lock"
    /\ rd_pc' = [rd_pc EXCEPT ![r] = "find_name"]
    /\ rd_lockver' = [rd_lockver EXCEPT ![r] = zdb_cur]
    /\ NoTouch /\ NoUnlock
    /\ UNCHANGED <<auxvars, udpvars, zdb_cur, zdb_reclaimed, wr_pc, wr_old, rd_query, rd_node,
                   rd_answers, rd_resp, rd_locks, rd_seen, rd_ret>>

\* Line 45: rcu_read_lock().
rcu_read_lock(r) ==
    /\ rd_pc[r] = "lock"
    /\ rd_nest' = [rd_nest EXCEPT ![r] = @ + 1]
    /\ rd_locks' = [rd_locks EXCEPT ![r] = @ + 1]
    /\ rd_lockver' = [rd_lockver EXCEPT ![r] = zdb_cur]
    /\ rd_pc' = [rd_pc EXCEPT ![r] = "find_name"]
    /\ NoTouch
    /\ UNCHANGED <<auxvars, udpvars, zdb_cur, zdb_reclaimed, wr_pc, wr_old, wr_wait, rd_query,
                   rd_node, rd_answers, rd_resp, rd_unlocks, rd_seen, rd_ret>>

\* Faulty variant: the database pointer is read without rcu_dereference ordering, so
\* the reader may still see the version published before the last swap.
zone_db_stale == IF zdb_cur > 0 THEN zdb_cur - 1 ELSE 0

\* Line 51: the dereference of nameserver->zone_db inside zdb_find_name
\* yields the version published at that moment.
zone_db == zdb_cur

\* Lines 47-51: look the query name up in the published version.
ns_find_name(r) ==
    /\ rd_pc[r] = "find_name"
    /\ rd_seen' = [rd_seen EXCEPT ![r] = zone_db]
    /\ rd_node' = [rd_node EXCEPT ![r] = zdb_find_name(zone_db, rd_query[r].qname)]
    /\ Touch(r, zone_db)
    /\ rd_pc' = [rd_pc EXCEPT ![r] = "alloc"]
    /\ NoUnlock
    /\ UNCHANGED <<auxvars, udpvars, zdb_cur, zdb_reclaimed, wr_pc, wr_old, rd_query, rd_answers,
                   rd_resp, rd_locks, rd_lockver, rd_ret>>

\* Lines 53-58: allocate the response; on failure unlock and return -1.
dnss_create_empty_packet(r) ==
    /\ rd_pc[r] = "alloc"
    /\ \/ /\ rd_pc' = [rd_pc EXCEPT ![r] = "branch"]
          /\ NoUnlock
          /\ UNCHANGED rd_ret
       \/ /\ RcuUnlock(r)
          /\ rd_ret' = [rd_ret EXCEPT ![r] = -1]
          /\ rd_pc' = [rd_pc EXCEPT ![r] = "ret"]
    /\ NoTouch
    /\ UNCHANGED <<auxvars, udpvars, zdb_cur, zdb_reclaimed, wr_pc, wr_old, rd_query, rd_node,
                   rd_answers, rd_resp, rd_locks, rd_lockver, rd_seen>>

\* Faulty variant: the rrset is looked up again in the currently published
\* version instead of through the node already found.
ns_rrset_version_current(node) == zdb_cur

\* Lines 70-71: zn_find_rrset is given the node found at line 50, so the
\* rrset is read from the version that node belongs to.
ns_rrset_version(node) == node.ver

\* Lines 60-61, 68-71: with a node, find the rrset of the queried type.
ns_find_rrset(r) ==
    /\ rd_pc[r] = "branch"
    /\ IF rd_node[r] = NoNode
       THEN /\ NoTouch
            /\ UNCHANGED rd_answers
       ELSE /\ Touch(r, ns_rrset_version(rd_node[r]))
            /\ rd_answers' = [rd_answers EXCEPT ![r] =
                   zn_find_rrset([ver |-> ns_rrset_version(rd_node[r]),
                                  name |-> rd_node[r].name], rd_query[r].qtype)]
    /\ rd_pc' = [rd_pc EXCEPT ![r] = "respond"]
    /\ NoUnlock
    /\ UNCHANGED <<auxvars, udpvars, zdb_cur, zdb_reclaimed, wr_pc, wr_old, rd_query, rd_node,
                   rd_resp, rd_locks, rd_lockver, rd_seen, rd_ret>>

\* What a built response still references in the zone: nothing, the records
\* are copied ("all data copied", line 81). dnss_create_response itself is
\* not part of the source file.
ResponseRef(answers) == -1

\* Faulty variant: the failure path returns without rcu_read_unlock().
dnss_create_response_leaks_lock(r) ==
    /\ rd_pc[r] = "respond"
    /\ IF rd_answers[r] = NoRRSet THEN NoTouch ELSE Touch(r, rd_answers[r].ver)
    /\ \/ /\ rd_resp' = [rd_resp EXCEPT ![r] =
                 [nodever |-> rd_node[r].ver, answers |-> rd_answers[r],
                  ref |-> ResponseRef(rd_answers[r])]]
          /\ rd_pc' = [rd_pc EXCEPT ![r] = "unlock"]
          /\ UNCHANGED rd_ret
       \/ /\ rd_ret' = [rd_ret EXCEPT ![r] = -1]
          /\ rd_pc' = [rd_pc EXCEPT ![r] = "ret"]
          /\ UNCHANGED rd_resp
    /\ NoUnlock
    /\ UNCHANGED <<auxvars, udpvars, zdb_cur, zdb_reclaimed, wr_pc, wr_old, rd_query, rd_node,
                   rd_answers, rd_locks, rd_lockver, rd_seen>>

\* Lines 62-67, 72-78: build the response from the rrset (its records are
\* counted and read); on failure unlock and return -1.
dnss_create_response(r) ==
    /\ rd_pc[r] = "respond"
    /\ IF rd_answers[r] = NoRRSet THEN NoTouch ELSE Touch(r, rd_answers[r].ver)
    /\ \/ /\ rd_resp' = [rd_resp EXCEPT ![r] =
                 [nodever |-> rd_node[r].ver, answers |-> rd_answers[r],
                  ref |-> ResponseRef(rd_answers[r])]]
          /\ rd_pc' = [rd_pc EXCEPT ![r] = "unlock"]
          /\ NoUnlock
          /\ UNCHANGED rd_ret
       \/ /\ RcuUnlock(r)
          /\ rd_ret' = [rd_ret EXCEPT ![r] = -1]
          /\ rd_pc' = [rd_pc EXCEPT ![r] = "ret"]
          /\ UNCHANGED rd_resp
    /\ UNCHANGED <<auxvars, udpvars, zdb_cur, zdb_reclaimed, wr_pc, wr_old, rd_query, rd_node,
                   rd_answers, rd_locks, rd_lockver, rd_seen>>

\* Lines 81-83: node = NULL; rcu_read_unlock().
rcu_read_unlock(r) ==
    /\ rd_pc[r] = "unlock"
    /\ rd_node' = [rd_node EXCEPT ![r] = NoNode]
    /\ RcuUnlock(r)
    /\ rd_pc' = [rd_pc EXCEPT ![r] = "wire"]
    /\ NoTouch
    /\ UNCHANGED <<auxvars, udpvars, zdb_cur, zdb_reclaimed, wr_pc, wr_old, rd_query, rd_answers,
                   rd_resp, rd_locks, rd_lockver, rd_seen, rd_ret>>

\* Lines 87-103: write the response to the wire; when it does not fit, build
\* the error response and write that; assert(res != 0) aborts when the second
\* dnss_wire_format returns 0.
dnss_wire_format(r) ==
    /\ rd_pc[r] = "wire"
    /\ IF rd_resp[r].ref = -1 THEN NoTouch ELSE Touch(r, rd_resp[r].ref)
    /\ \/ /\ rd_ret' = [rd_ret EXCEPT ![r] = 0]
          /\ rd_pc' = [rd_pc EXCEPT ![r] = "ret"]
          /\ UNCHANGED rd_resp
       \/ /\ rd_ret' = [rd_ret EXCEPT ![r] = -1]
          /\ rd_pc' = [rd_pc EXCEPT ![r] = "ret"]
          /\ UNCHANGED rd_resp
       \/ \E res \in {0, -1} :
             /\ rd_resp' = [rd_resp EXCEPT ![r] =
                    [nodever |-> -1, answers |-> NoRRSet, ref |-> -1]]
             /\ IF res # 0
                THEN /\ rd_ret' = [rd_ret EXCEPT ![r] = 0]
                     /\ rd_pc' = [rd_pc EXCEPT ![r] = "ret"]
                ELSE /\ rd_pc' = [rd_pc EXCEPT ![r] = "abort"]
                     /\ UNCHANGED rd_ret
    /\ NoUnlock
    /\ UNCHANGED <<auxvars, udpvars, zdb_cur, zdb_reclaimed, wr_pc, wr_old, rd_query, rd_node,
                   rd_answers, rd_locks, rd_lockver, rd_seen>>

\* The caller takes the result; the thread is ready for its next query.
ns_return(r) ==
    /\ rd_pc[r] = "ret"
    /\ rd_pc' = [rd_pc EXCEPT ![r] = "idle"]
    /\ rd_query' = [rd_query EXCEPT ![r] = NoQuery]
    /\ rd_node' = [rd_node EXCEPT ![r] = NoNode]
    /\ rd_answers' = [rd_answers EXCEPT ![r] = NoRRSet]
    /\ rd_resp' = [rd_resp EXCEPT ![r] = NoResp]
    /\ rd_locks' = [rd_locks EXCEPT ![r] = 0]
    /\ rd_unlocks' = [rd_unlocks EXCEPT ![r] = 0]
    /\ rd_lockver' = [rd_lockver EXCEPT ![r] = -1]
    /\ rd_seen' = [rd_seen EXCEPT ![r] = -1]
    /\ rd_ret' = [rd_ret EXCEPT ![r] = 0]
    /\ NoTouch
    /\ UNCHANGED <<auxvars, udpvars, zdb_cur, zdb_reclaimed, wr_pc, wr_old, wr_wait, rd_nest>>

NsInit ==
    /\ zdb_cur = 0
    /\ zdb_reclaimed = {}
    /\ wr_pc = "idle"
    /\ wr_old = 0
    /\ wr_wait = {}
    /\ rd_pc = [r \in Readers |-> "idle"]
    /\ rd_query = [r \in Readers |-> NoQuery]
    /\ rd_node = [r \in Readers |-> NoNode]
    /\ rd_answers = [r \in Readers |-> NoRRSet]
    /\ rd_resp = [r \in Readers |-> NoResp]
    /\ rd_nest = [r \in Readers |-> 0]
    /\ rd_locks = [r \in Readers |-> 0]
    /\ rd_unlocks = [r \in Readers |-> 0]
    /\ rd_lockver = [r \in Readers |-> -1]
    /\ rd_seen = [r \in Readers |-> -1]
    /\ rd_ret = [r \in Readers |-> 0]
    /\ rcu_uaf = FALSE
    /\ rcu_unprot = FALSE

NsNext ==
    \/ zdb_swap
    \/ zdb_reclaim
    \/ \E r \in Readers : dnss_parse_query(r)
    \/ \E r \in Readers : rcu_read_lock(r)
    \/ \E r \in Readers : ns_find_name(r)
    \/ \E r \in Readers : dnss_create_empty_packet(r)
    \/ \E r \in Readers : ns_find_rrset(r)
    \/ \E r \in Readers : dnss_create_response(r)
    \/ \E r \in Readers : rcu_read_unlock(r)
    \/ \E r \in Readers : dnss_wire_format(r)
    \/ \E r \in Readers : ns_return(r)

\* ======================================================== the UDP worker
APIs == {"recvfrom", "recvmmsg", "xdp", "quic"}
Fds == 1..NFds
Slots == 1..BatchLen

\* Layer states (knot/query/layer.h).
States == {"PRODUCE", "CONSUME", "DONE", "FAIL", "RESET"}

NoPkt == [ret |-> "none", size |-> 0, parsed0 |-> 0, parsed |-> 0]
NoSent == [slots |-> {}, nonempty |-> {}, done |-> FALSE, dst |-> <<>>]

\* Lines 834-837.
udp_state_active(state) == state = "PRODUCE" \/ state = "FAIL"

\* Lines 1007-1013, 1118-1124, 1160-1167, 1491-1497: only xdp_recvmmsg_api
\* sets the optional udp_sweep member.
api_has_sweep(a) == a = "xdp"

\* The APIs whose handle and send are udp_recvfrom_handle and
\* udp_recvfrom_send (lines 1007-1013, 1491-1497).
RecvfromLike == {"recvfrom", "quic"}

\* knot_pkt_parse(query, 0) on a packet of the given size: success with the
\* whole packet parsed, or an error with the count of bytes parsed before it.
knot_pkt_parse(size) ==
    {[ret |-> "EOK", parsed |-> size]}
        \cup {[ret |-> "EMALF", parsed |-> p] : p \in 0..size}

\* Faulty variant: the parsed count is left as the parser returned it.
udp_fix_parsed_unchanged(ret, parsed) == parsed

\* Lines 862-864.
udp_fix_parsed(ret, parsed) ==
    IF ret # "EOK" /\ parsed > 0 THEN parsed - 1 ELSE parsed

\* Faulty variant: the answer is shipped whatever the final state.
udp_tx_len_any_state(state, size) == size

\* Lines 873-877.
udp_tx_len(state, size) == IF state = "DONE" THEN size ELSE 0

\* Number of knot_layer_produce calls made by the last udp_handle.
Produced == Len(SelectSeq(h_calls, LAMBDA c : c = "produce"))

\* A call made by the loop iteration. For a receive call, got tells whether
\* the receive syscall obtained a datagram and offered holds the RX slots as
\* they were handed to the kernel.
Event(op, fd) == [op |-> op, fd |-> fd, got |-> FALSE, offered |-> <<>>]

RecvEvent(op, fd, got, offered) ==
    [op |-> op, fd |-> fd, got |-> got, offered |-> offered]

\* An RX slot as the kernel reads it: buffer, address and control lengths.
Offer(slot) == [iov_len |-> slot.iov_len, namelen |-> slot.namelen,
                controllen |-> slot.controllen]

\* Faulty variant: the size limit is not asked for.
udp_query_flags_no_limit == {"NO_AXFR", "NO_IXFR"}

\* Lines 845-846: params.flags.
udp_query_flags == {"NO_AXFR", "NO_IXFR", "LIMIT_SIZE"}

NoIn == [flags |-> {}, txcap |-> 0]

\* Lines 868-870: the runs of the produce loop entered in the given layer
\* state with n calls made: the number of knot_layer_produce calls, the state
\* the loop is left in and the size of the answer. The layer is taken to
\* leave the active states within MaxProduce calls.
RECURSIVE udp_produce_loop(_, _, _)
udp_produce_loop(state, size, n) ==
    IF ~udp_state_active(state)
    THEN {[calls |-> n, state |-> state, size |-> size]}
    ELSE UNION {udp_produce_loop(s, sz, n + 1) :
                   s \in (IF n + 1 >= MaxProduce
                          THEN {x \in States : ~udp_state_active(x)} ELSE States),
                   sz \in 0..MaxPktSize}

\* Faulty variant: return early, without finish and flush, when there is
\* nothing to send.
udp_handle_reset_early(state) ==
    IF state = "DONE" THEN <<"finish", "flush">> ELSE <<>>

\* Lines 879-883: knot_layer_finish, then mp_flush, whatever the final state.
udp_handle_reset(state) == <<"finish", "flush">>

\* Lines 839-884 but for the store to tx->iov_len, which the calling action
\* makes from h_final and ans_size: begin the layer, create both packets in
\* the arena, parse the rxlen bytes, fix the parsed count, consume, run the
\* produce loop, finish the layer and flush the arena. The flush frees the
\* query and answer packets; their last values stay readable in query and
\* ans_size until the API's handle step moves on.
udp_handle(rxlen, txcap) ==
    \E po \in knot_pkt_parse(rxlen), s \in States :
        \E run \in udp_produce_loop(s, 0, 0) :
            LET reset == udp_handle_reset(run.state) IN
            /\ query' = [ret |-> po.ret, size |-> rxlen, parsed0 |-> po.parsed,
                         parsed |-> udp_fix_parsed(po.ret, po.parsed)]
            /\ h_final' = run.state
            /\ ans_size' = run.size
            /\ h_calls' = <<"begin", "parse", "consume">>
                            \o [i \in 1..run.calls |-> "produce"] \o reset
            /\ layer_state' = IF reset = <<>> THEN run.state ELSE "RESET"
            /\ arena' = IF reset = <<>> THEN arena + 2 ELSE 0
            /\ h_pc' = "handled"
            /\ h_in' = [flags |-> udp_query_flags, txcap |-> txcap]

\* The TX slot udp_handle writes to.
HandleSlot == IF api = "recvmmsg" THEN h_i ELSE 1

\* ------------------------------------------------------ udp_recvfrom_api
\* What the master loop does with the count udp_recv returned (lines
\* 1668-1671): handle and send when it is positive, else go to the next fd.
MasterAfterRecv(fd, n, got, offered) ==
    /\ m_ev' = Append(m_ev, RecvEvent(IF n > 0 THEN "recv_pos" ELSE "recv_none",
                                      fd, got, offered))
    /\ IF n > 0
       THEN m_pc' = "handle" /\ UNCHANGED m_it
       ELSE m_pc' = "events" /\ m_it' = m_it + 1

AtReadableFd == m_pc = "events" /\ m_it <= NFds /\ m_pollin[m_it]

\* Lines 969-971 and 1432-1435: "Reset max lengths" of the RX message.
udp_recvfrom_reset(slot) ==
    [iov_len |-> MaxPktSize, msg_len |-> slot.msg_len, namelen |-> "storage",
     controllen |-> "full"]

\* What recvmsg or recvmmsg leaves in the message header of a slot it
\* filled: the lengths of the source address and of the control data.
KernelFilled(slot) == [slot EXCEPT !.namelen = "addr", !.controllen = "rcvd"]

\* Lines 966-982.
udp_recvfrom_recv ==
    /\ api = "recvfrom" /\ AtReadableFd
    /\ LET off == udp_recvfrom_reset(rx[1]) IN
       \E ret \in {-1} \cup (0..MaxPktSize) :
          IF ret > 0
          THEN /\ rq_fd' = m_it
               /\ rx' = [rx EXCEPT ![1] = [KernelFilled(off) EXCEPT !.iov_len = ret]]
               /\ MasterAfterRecv(m_it, 1, TRUE, <<Offer(off)>>)
          ELSE /\ UNCHANGED rq_fd
               /\ rx' = [rx EXCEPT ![1] = IF ret = 0 THEN KernelFilled(off) ELSE off]
               /\ MasterAfterRecv(m_it, 0, ret = 0, <<Offer(off)>>)
    /\ UNCHANGED <<auxvars, nsvars, udpaux, api, m_ret, cancelled, m_pollin, m_fin, rq_rcvd, tx, sent,
                   h_pc, h_i, h_calls, layer_state, h_final, ans_size, query, arena>>

\* Line 1669: the call of api->udp_handle.
udp_master_call_handle ==
    /\ m_pc = "handle" /\ h_pc = "idle"
    /\ m_ev' = Append(m_ev, Event("handle", m_it))
    /\ h_pc' = "next"
    /\ h_i' = 1
    /\ sent' = NoSent
    /\ UNCHANGED <<auxvars, nsvars, udpaux, api, m_pc, m_ret, cancelled, m_it, m_pollin, m_fin, rq_fd,
                   rq_rcvd, rx, tx, h_calls, layer_state, h_final, ans_size,
                   query, arena>>

\* Lines 984-995: the TX address length and buffer length are prepared, then
\* udp_handle runs on the datagram.
udp_recvfrom_handle ==
    /\ api \in RecvfromLike
    /\ m_pc = "handle" /\ h_pc = "next"
    /\ udp_handle(rx[1].iov_len, MaxPktSize)
    /\ tx' = [tx EXCEPT ![1] = [iov_len |-> udp_tx_len(h_final', ans_size'),
                                namelen |-> rx[1].namelen]]
    /\ UNCHANGED <<auxvars, nsvars, addrs, api, m_pc, m_ret, cancelled, m_it, m_pollin, m_ev, m_fin,
                   rq_fd, rq_rcvd, rx, sent, h_i>>

\* udp_handle has returned to udp_recvfrom_handle, which returns.
udp_recvfrom_handle_done ==
    /\ api \in RecvfromLike
    /\ m_pc = "handle" /\ h_pc = "handled"
    /\ h_pc' = "idle"
    /\ h_calls' = <<>>
    /\ h_final' = "none"
    /\ ans_size' = 0
    /\ query' = NoPkt
    /\ h_in' = NoIn
    /\ m_pc' = "send"
    /\ UNCHANGED <<auxvars, nsvars, addrs, api, m_ret, cancelled, m_it, m_pollin, m_ev, m_fin, rq_fd,
                   rq_rcvd, rx, tx, sent, h_i, layer_state, arena>>

\* The master loop after api->udp_send returned (lines 1664, 1670).
MasterAfterSend ==
    /\ m_ev' = Append(m_ev, Event("send", m_it))
    /\ m_it' = m_it + 1
    /\ m_pc' = "events"

\* Lines 998-1004.
udp_recvfrom_send ==
    /\ api \in RecvfromLike
    /\ m_pc = "send"
    /\ sent' = [slots |-> IF tx[1].iov_len > 0 THEN {1} ELSE {},
                nonempty |-> {i \in {1} : tx[i].iov_len > 0},
                done |-> TRUE, dst |-> <<>>]
    /\ MasterAfterSend
    /\ UNCHANGED <<auxvars, nsvars, udpaux, api, m_ret, cancelled, m_pollin, m_fin, rq_fd, rq_rcvd, rx, tx,
                   h_pc, h_i, h_calls, layer_state, h_final, ans_size, query, arena>>

\* ------------------------------------------------------ udp_recvmmsg_api
\* Lines 1066-1076: recvmmsg fills the first n RX slots (length and source
\* address length of each datagram) or fails.
udp_recvmmsg_recv ==
    /\ api = "recvmmsg" /\ AtReadableFd
    /\ LET off == [i \in Slots |-> Offer(rx[i])] IN
       \/ /\ MasterAfterRecv(m_it, -1, FALSE, off)
          /\ UNCHANGED <<rq_fd, rq_rcvd, rx, addrs>>
       \/ \E n \in Slots : \E len \in [1..n -> 0..MaxPktSize] :
             /\ rq_fd' = m_it
             /\ rq_rcvd' = n
             /\ rx' = [i \in Slots |->
                         IF i <= n
                         THEN [KernelFilled(rx[i]) EXCEPT !.msg_len = len[i]]
                         ELSE rx[i]]
             /\ addrs' = [i \in Slots |-> IF i <= n THEN i ELSE addrs[i]]
             /\ MasterAfterRecv(m_it, n, TRUE, off)
    /\ UNCHANGED <<auxvars, nsvars, h_in, api, m_ret, cancelled, m_pollin, m_fin, tx, sent,
                   h_pc, h_i, h_calls, layer_state, h_final, ans_size, query, arena>>

\* Lines 1083-1096, the loop body for datagram h_i: the received length
\* becomes the RX buffer length, udp_handle runs, and the TX message gets the
\* source address length only if there is output. The msg_len of the TX
\* message (line 1091) is an output field of sendmmsg that nothing reads; it
\* equals iov_len here and is not kept apart.
udp_recvmmsg_handle ==
    /\ api = "recvmmsg"
    /\ m_pc = "handle" /\ h_pc = "next"
    /\ rx' = [rx EXCEPT ![h_i].iov_len = rx[h_i].msg_len]
    /\ udp_handle(rx[h_i].msg_len, tx[h_i].iov_len)
    /\ LET len == udp_tx_len(h_final', ans_size') IN
       tx' = [tx EXCEPT ![h_i] = [iov_len |-> len,
                                  namelen |-> IF len > 0 THEN rx[h_i].namelen
                                              ELSE "zero"]]
    /\ UNCHANGED <<auxvars, nsvars, addrs, api, m_pc, m_ret, cancelled, m_it, m_pollin, m_ev, m_fin,
                   rq_fd, rq_rcvd, sent, h_i>>

\* Line 1082: the loop's next round, or its exit and the return to the master.
udp_recvmmsg_handle_next ==
    /\ api = "recvmmsg"
    /\ m_pc = "handle" /\ h_pc = "handled"
    /\ h_calls' = <<>>
    /\ h_final' = "none"
    /\ ans_size' = 0
    /\ query' = NoPkt
    /\ h_in' = NoIn
    /\ IF h_i < rq_rcvd
       THEN h_i' = h_i + 1 /\ h_pc' = "next" /\ UNCHANGED m_pc
       ELSE h_i' = 1 /\ h_pc' = "idle" /\ m_pc' = "send"
    /\ UNCHANGED <<auxvars, nsvars, addrs, api, m_ret, cancelled, m_it, m_pollin, m_ev, m_fin, rq_fd,
                   rq_rcvd, rx, tx, sent, layer_state, arena>>

\* sendmmsg(fd, msgvec, vlen, 0) on the unconnected UDP socket: the messages
\* are sent in order and the call stops at the first one that fails; a
\* message with msg_namelen 0 has no destination and fails. The result is the
\* number of messages sent.
RECURSIVE sendmmsg(_, _, _)
sendmmsg(msgvec, vlen, i) ==
    IF i > vlen \/ msgvec[i].namelen = "zero" THEN i - 1
    ELSE sendmmsg(msgvec, vlen, i + 1)

\* Faulty variant: every TX message names the address storage of slot 1.
udp_recvmmsg_tx_name_first(k) == 1

\* Lines 1042-1049: msg_name of TX message k is rq->addrs + k, the storage
\* RX message k names too.
udp_recvmmsg_tx_name(k) == k

\* Faulty variant: the control length is not reset.
udp_recvmmsg_reset_rx_keeps_control(slot) ==
    [iov_len |-> MaxPktSize, msg_len |-> slot.msg_len, namelen |-> "storage",
     controllen |-> slot.controllen]

\* Lines 1108, 1112, 1114: the reset of an RX slot after the batch was sent.
udp_recvmmsg_reset_rx(slot) ==
    [iov_len |-> MaxPktSize, msg_len |-> slot.msg_len, namelen |-> "storage",
     controllen |-> "full"]

\* Lines 1100-1116: sendmmsg, each message going to the address its msg_name
\* holds at that moment; then the reset of the slots of the batch.
udp_recvmmsg_send ==
    /\ api = "recvmmsg"
    /\ m_pc = "send"
    /\ LET slots == 1..sendmmsg(tx, rq_rcvd, 1) IN
       sent' = [slots |-> slots,
                nonempty |-> {i \in 1..rq_rcvd : tx[i].iov_len > 0},
                done |-> TRUE,
                dst |-> [i \in slots |-> addrs[udp_recvmmsg_tx_name(i)]]]
    /\ addrs' = [i \in Slots |-> IF i <= rq_rcvd THEN 0 ELSE addrs[i]]
    /\ rx' = [i \in Slots |->
                IF i <= rq_rcvd THEN udp_recvmmsg_reset_rx(rx[i]) ELSE rx[i]]
    /\ tx' = [i \in Slots |->
                IF i <= rq_rcvd
                THEN [iov_len |-> MaxPktSize, namelen |-> "storage"]
                ELSE tx[i]]
    /\ MasterAfterSend
    /\ UNCHANGED <<auxvars, nsvars, h_in, api, m_ret, cancelled, m_pollin, m_fin, rq_fd, rq_rcvd,
                   h_pc, h_i, h_calls, layer_state, h_final, ans_size, query, arena>>

\* ------------------------------------------------------ xdp_recvmmsg_api
\* Lines 1139-1142: the count comes from xdp_handle_recv.
xdp_recvmmsg_recv ==
    /\ api = "xdp" /\ AtReadableFd
    /\ \E n \in {-1, 0, 1} : MasterAfterRecv(m_it, n, n > 0, <<>>)
    /\ UNCHANGED <<auxvars, nsvars, udpaux, api, m_ret, cancelled, m_pollin, m_fin, rq_fd, rq_rcvd, rx, tx,
                   sent, h_pc, h_i, h_calls, layer_state, h_final, ans_size,
                   query, arena>>

\* Lines 1144-1147: xdp_handle_msgs works on its own buffers.
xdp_recvmmsg_handle ==
    /\ api = "xdp"
    /\ m_pc = "handle" /\ h_pc = "next"
    /\ h_pc' = "idle"
    /\ m_pc' = "send"
    /\ UNCHANGED <<auxvars, nsvars, udpaux, api, m_ret, cancelled, m_it, m_pollin, m_ev, m_fin, rq_fd,
                   rq_rcvd, rx, tx, sent, h_i, h_calls, layer_state, h_final,
                   ans_size, query, arena>>

\* Lines 1149-1152.
xdp_recvmmsg_send ==
    /\ api = "xdp"
    /\ m_pc = "send"
    /\ MasterAfterSend
    /\ UNCHANGED <<auxvars, nsvars, udpaux, api, m_ret, cancelled, m_pollin, m_fin, rq_fd, rq_rcvd, rx, tx,
                   sent, h_pc, h_i, h_calls, layer_state, h_final, ans_size,
                   query, arena>>

\* ------------------------------------------------------ quic_recvfrom_api
\* Lines 1425-1488: a failed recvmsg returns 1; a datagram that was read
\* returns 0 (version negotiation, known or accepted connection) or
\* KNOT_NET_ECONNECT (undecodable, not accepted), which is negative.
quic_recvfrom_recv ==
    /\ api = "quic" /\ AtReadableFd
    /\ LET off == udp_recvfrom_reset(rx[1]) IN
       \E nread \in {-1} \cup (0..MaxPktSize) :
          IF nread < 0
          THEN /\ UNCHANGED rq_fd
               /\ rx' = [rx EXCEPT ![1] = off]
               /\ MasterAfterRecv(m_it, 1, FALSE, <<Offer(off)>>)
          ELSE /\ rq_fd' = m_it
               /\ rx' = [rx EXCEPT ![1] = [KernelFilled(off) EXCEPT !.iov_len = nread]]
               /\ \E ret \in {0, -1} :
                     MasterAfterRecv(m_it, ret, TRUE, <<Offer(off)>>)
    /\ UNCHANGED <<auxvars, nsvars, udpaux, api, m_ret, cancelled, m_pollin, m_fin, rq_rcvd, tx, sent,
                   h_pc, h_i, h_calls, layer_state, h_final, ans_size, query, arena>>

\* ---------------------------------------------------------- udp_master
\* Lines 1581-1650: the early returns (no thread data, no interfaces) leave
\* without cleanup; a failed fdset_init, an empty fd set or a failed udp_init
\* jumps to finish; otherwise the loop is entered.
udp_master_init ==
    /\ m_pc = "start"
    /\ \/ m_pc' = "returned" /\ m_ret' = "early"
       \/ m_pc' = "finish" /\ UNCHANGED m_ret
       \/ m_pc' = "check" /\ UNCHANGED m_ret
    /\ UNCHANGED <<auxvars, nsvars, udpaux, api, cancelled, m_it, m_pollin, m_ev, m_fin, rq_fd, rq_rcvd,
                   rx, tx, sent, h_pc, h_i, h_calls, layer_state, h_final,
                   ans_size, query, arena>>

\* Faulty variant: the cancellation flag is not looked at.
dt_is_cancelled_ignored == FALSE

\* Line 1655: dt_is_cancelled(thread).
dt_is_cancelled == cancelled

\* Lines 1653-1657: the cancellation point at the top of the loop.
udp_master_check ==
    /\ m_pc = "check"
    /\ m_pc' = IF dt_is_cancelled THEN "finish" ELSE "poll"
    /\ UNCHANGED <<auxvars, nsvars, udpaux, api, m_ret, cancelled, m_it, m_pollin, m_ev, m_fin, rq_fd,
                   rq_rcvd, rx, tx, sent, h_pc, h_i, h_calls, layer_state,
                   h_final, ans_size, query, arena>>

\* Lines 1659-1661: fdset_poll with a one second timeout reports any subset
\* of the fds readable.
udp_master_poll ==
    /\ m_pc = "poll"
    /\ \E ready \in [Fds -> BOOLEAN] : m_pollin' = ready
    /\ m_it' = 1
    /\ m_ev' = <<Event("poll", 0)>>
    /\ sent' = NoSent
    /\ m_pc' = "events"
    /\ UNCHANGED <<auxvars, nsvars, udpaux, api, m_ret, cancelled, m_fin, rq_fd, rq_rcvd, rx, tx, h_pc, h_i,
                   h_calls, layer_state, h_final, ans_size, query, arena>>

\* Lines 1664-1667: an fd without POLLIN is skipped.
udp_master_skip_fd ==
    /\ m_pc = "events" /\ m_it <= NFds /\ ~m_pollin[m_it]
    /\ m_it' = m_it + 1
    /\ UNCHANGED <<auxvars, nsvars, udpaux, api, m_pc, m_ret, cancelled, m_pollin, m_ev, m_fin, rq_fd,
                   rq_rcvd, rx, tx, sent, h_pc, h_i, h_calls, layer_state,
                   h_final, ans_size, query, arena>>

\* Faulty variant: the sweep hook is called for every API.
udp_master_sweeps_always ==
    /\ m_pc = "events" /\ m_it > NFds
    /\ m_ev' = Append(m_ev, Event("sweep", 0))
    /\ m_pc' = "check"
    /\ UNCHANGED <<auxvars, nsvars, udpaux, api, m_ret, cancelled, m_it, m_pollin, m_fin, rq_fd, rq_rcvd,
                   rx, tx, sent, h_pc, h_i, h_calls, layer_state, h_final,
                   ans_size, query, arena>>

\* Lines 1674-1678: after the last fd, the optional sweep; then the next
\* iteration.
udp_master_sweep ==
    /\ m_pc = "events" /\ m_it > NFds
    /\ m_ev' = IF api_has_sweep(api) THEN Append(m_ev, Event("sweep", 0)) ELSE m_ev
    /\ m_pc' = "check"
    /\ UNCHANGED <<auxvars, nsvars, udpaux, api, m_ret, cancelled, m_it, m_pollin, m_fin, rq_fd, rq_rcvd,
                   rx, tx, sent, h_pc, h_i, h_calls, layer_state, h_final,
                   ans_size, query, arena>>

\* Lines 1680-1685.
udp_master_finish ==
    /\ m_pc = "finish"
    /\ m_fin' = <<"udp_deinit", "mp_delete", "fdset_clear">>
    /\ m_ret' = "KNOT_EOK"
    /\ m_pc' = "returned"
    /\ UNCHANGED <<auxvars, nsvars, udpaux, api, cancelled, m_it, m_pollin, m_ev, rq_fd, rq_rcvd, rx, tx,
                   sent, h_pc, h_i, h_calls, layer_state, h_final, ans_size,
                   query, arena>>

\* Another thread sets the worker's cancellation flag (dt_stop).
dt_stop ==
    /\ ~cancelled
    /\ cancelled' = TRUE
    /\ UNCHANGED <<auxvars, nsvars, udpaux, api, m_pc, m_ret, m_it, m_pollin, m_ev, m_fin, rq_fd, rq_rcvd,
                   rx, tx, sent, h_pc, h_i, h_calls, layer_state, h_final,
                   ans_size, query, arena>>

\* Lines 939-958, 1028-1056, 1599-1631: the API chosen for the thread, its
\* request structure as the API's udp_init leaves it, the layer initialised.
UdpInit ==
    /\ api \in APIs
    /\ m_pc = "start"
    /\ m_ret = "none"
    /\ cancelled = FALSE
    /\ m_it = 1
    /\ m_pollin = [f \in Fds |-> FALSE]
    /\ m_ev = <<>>
    /\ m_fin = <<>>
    /\ rq_fd = 0
    /\ rq_rcvd = 0
    /\ rx = [i \in Slots |-> [iov_len |-> MaxPktSize, msg_len |-> 0,
                              namelen |-> "storage", controllen |-> "full"]]
    /\ tx = [i \in Slots |-> [iov_len |-> MaxPktSize, namelen |-> "storage"]]
    /\ sent = NoSent
    /\ h_pc = "idle"
    /\ h_i = 1
    /\ h_calls = <<>>
    /\ layer_state = "RESET"
    /\ h_final = "none"
    /\ ans_size = 0
    /\ query = NoPkt
    /\ arena = 0
    /\ h_in = NoIn
    /\ addrs = [i \in Slots |-> 0]

\* The steps of the worker thread.
UdpWorker ==
    \/ udp_master_init
    \/ udp_master_check
    \/ udp_master_poll
    \/ udp_master_skip_fd
    \/ udp_recvfrom_recv
    \/ udp_recvmmsg_recv
    \/ xdp_recvmmsg_recv
    \/ quic_recvfrom_recv
    \/ udp_master_call_handle
    \/ udp_recvfrom_handle
    \/ udp_recvmmsg_handle
    \/ xdp_recvmmsg_handle
    \/ udp_recvfrom_handle_done
    \/ udp_recvmmsg_handle_next
    \/ udp_recvfrom_send
    \/ udp_recvmmsg_send
    \/ xdp_recvmmsg_send
    \/ udp_master_sweep
    \/ udp_master_finish

\* ================================================== udp_pktinfo_handle
\* Sizes of struct cmsghdr and of a control message holding a pktinfo, in
\* units that keep their order (lines 896-899).
CmsgHdrLen == 1
CmsgLen == 2

Addrs == {"a1", "a2"}
IfIndexes == 0..2

\* The first control message of a buffer: level and type, and the fields of
\* struct in_pktinfo / in6_pktinfo (IPv6 has no spec_dst).
CmsgKinds == {"IP_PKTINFO", "IPV6_PKTINFO", "other"}
Cmsgs == [kind : CmsgKinds, ifindex : IfIndexes, addr : Addrs, spec_dst : Addrs]

\* CMSG_FIRSTHDR (line 912): the buffer's first header if the control length
\* holds one, else NULL.
CMSG_FIRSTHDR(msg) ==
    IF msg.control # "NULL" /\ msg.controllen >= CmsgHdrLen THEN "buf" ELSE "NULL"

\* Faulty variant: the interface index is left as received.
pktinfo_fix_keeps_ifindex(cmsg) ==
    IF cmsg.kind = "IP_PKTINFO"
    THEN [cmsg EXCEPT !.spec_dst = cmsg.addr]
    ELSE cmsg

\* Lines 917-925: the PKTINFO of the first control message is turned into
\* one fit for sending.
pktinfo_fix(cmsg) ==
    IF cmsg.kind = "IP_PKTINFO"
    THEN [cmsg EXCEPT !.spec_dst = cmsg.addr, !.ifindex = 0]
    ELSE IF cmsg.kind = "IPV6_PKTINFO"
    THEN [cmsg EXCEPT !.ifindex = 0]
    ELSE cmsg

\* Lines 901-927 (the Linux / macOS build).
udp_pktinfo_handle ==
    /\ pk_pc = "call"
    /\ LET tx1 == [controllen |-> pk_rx.controllen,
                   control |-> IF pk_rx.controllen > 0 THEN pk_rx.control
                               ELSE "NULL"]
       IN /\ pk_tx' = tx1
          /\ pk_buf' = IF CMSG_FIRSTHDR(tx1) = "NULL" THEN pk_buf
                       ELSE pktinfo_fix(pk_buf)
    /\ pk_pc' = "done"
    /\ UNCHANGED <<pwvars, bpvars, nsvars, udpvars, ntvars, qvars, avars, pk_rx, pk_rcvd>>

\* The next datagram arrives: recvmsg fills the control buffer and sets the
\* control length of the RX message (lines 970-974, 1069).
pk_recvmsg ==
    /\ pk_pc = "done"
    /\ \E len \in {0, CmsgLen}, c \in Cmsgs :
          /\ pk_rx' = [controllen |-> len, control |-> "buf"]
          /\ pk_buf' = IF len > 0 THEN c ELSE pk_buf
          /\ pk_rcvd' = IF len > 0 THEN c ELSE pk_buf
    /\ pk_pc' = "call"
    /\ UNCHANGED <<pwvars, bpvars, nsvars, udpvars, ntvars, qvars, avars, pk_tx>>

\* Lines 939-958: both messages point at the request's one pktinfo buffer;
\* a first message has been received.
PkInit ==
    /\ pk_pc = "call"
    /\ \E len \in {0, CmsgLen} : pk_rx = [controllen |-> len, control |-> "buf"]
    /\ pk_tx = [controllen |-> CmsgLen, control |-> "buf"]
    /\ pk_buf \in Cmsgs
    /\ pk_rcvd = pk_buf

\* The pktinfo variables where udp_pktinfo_handle is not looked at.
PkIdle ==
    /\ PkInit
    /\ pk_rx.controllen = 0
    /\ pk_buf = [kind |-> "other", ifindex |-> 0, addr |-> "a1", spec_dst |-> "a1"]

PkNext == udp_pktinfo_handle \/ pk_recvmsg

\* ============================================== outbound NOTIFY (629-765)
Zones == {"example.", "example.org."}
Soas == {"soa1", "soa2"}
NoSoa == "NULL"

\* A DNS packet as far as NOTIFY goes.
NotifyPkts ==
    [opcode : {"QUERY", "NOTIFY"}, aa : BOOLEAN,
     question : {<<>>} \cup {<<[qname |-> z, qclass |-> "IN", qtype |-> "SOA"]>> :
                              z \in Zones},
     answer : {<<>>} \cup {<<x>> : x \in Soas}, edns : BOOLEAN]

\* query_init_pkt: the packet is cleared (a fresh ID, no flags, no records).
query_init_pkt(pkt) ==
    [opcode |-> "QUERY", aa |-> FALSE, question |-> <<>>, answer |-> <<>>,
     edns |-> FALSE]

knot_pkt_put_question(pkt, qname, qclass, qtype) ==
    [pkt EXCEPT !.question =
        Append(@, [qname |-> qname, qclass |-> qclass, qtype |-> qtype])]

\* knot_pkt_begin(pkt, KNOT_ANSWER) and knot_pkt_put of one rrset.
knot_pkt_put_answer(pkt, rrset) == [pkt EXCEPT !.answer = Append(@, rrset)]

\* Faulty variant: the SOA hint is put whether or not one was supplied.
notify_produce_always_soa(data, pkt) ==
    LET p1 == [query_init_pkt(pkt) EXCEPT !.opcode = "NOTIFY", !.aa = TRUE]
        p2 == knot_pkt_put_question(p1, data.zone, "IN", "SOA")
    IN [knot_pkt_put_answer(p2, data.soa) EXCEPT !.edns = TRUE]

\* Lines 636-655: the packet notify_produce leaves in pkt.
notify_produce(data, pkt) ==
    LET p1 == [query_init_pkt(pkt) EXCEPT !.opcode = "NOTIFY", !.aa = TRUE]
        p2 == knot_pkt_put_question(p1, data.zone, "IN", "SOA")
        p3 == IF data.soa # NoSoa THEN knot_pkt_put_answer(p2, data.soa) ELSE p2
    IN [p3 EXCEPT !.edns = TRUE]

\* Line 633: the state notify_begin returns.
notify_begin_state == "PRODUCE"

\* Line 654: the state notify_produce returns.
notify_produce_state == "CONSUME"

\* The responses a remote can send: any rcode, any opcode.
Responses == [rcode : {0, 5}, opcode : {"NOTIFY", "QUERY"}]

NoResponse == [rcode |-> 0, opcode |-> "none"]

\* Faulty variant: a response with an error rcode fails the layer.
notify_consume_by_rcode(resp) == IF resp.rcode = 0 THEN "DONE" ELSE "FAIL"

\* Line 659: the state notify_consume returns, whatever the packet holds.
notify_consume_state(resp) == "DONE"

\* Lines 629-634, called by the driver first.
notify_begin ==
    /\ nt_pc = "layer" /\ nt_state = "none"
    /\ nt_state' = notify_begin_state
    /\ UNCHANGED <<ntaux, pwvars, bpvars, nsvars, udpvars, pkvars, qvars, avars, nt_pc, nt_conf, nt_empty, nt_zone, nt_r,
                   nt_i,
                   nt_ret, nt_failed, nt_log, nt_result, nt_serial, nt_data,
                   nt_pkt>>

\* Lines 636-655, called by the driver while the layer is in PRODUCE.
notify_produce_step ==
    /\ nt_pc = "layer" /\ nt_state = "PRODUCE"
    /\ nt_produced < MaxProduce
    /\ nt_pkt' = notify_produce(nt_data, nt_pkt)
    /\ nt_produced' = nt_produced + 1
    /\ nt_state' = notify_produce_state
    /\ UNCHANGED <<nt_resp, nt_hist, pwvars, bpvars, nsvars, udpvars, pkvars, qvars, avars, nt_pc, nt_conf, nt_empty, nt_zone, nt_r,
                   nt_i,
                   nt_ret, nt_failed, nt_log, nt_result, nt_serial, nt_data>>

\* Lines 657-660, called by the driver with a received response while the
\* layer is in CONSUME.
notify_consume ==
    /\ nt_pc = "layer" /\ nt_state = "CONSUME"
    /\ \E resp \in Responses :
          /\ nt_resp' = resp
          /\ nt_state' = notify_consume_state(resp)
    /\ UNCHANGED <<nt_produced, nt_hist, pwvars, bpvars, nsvars, udpvars, pkvars, qvars, avars, nt_pc, nt_conf, nt_empty, nt_zone, nt_r,
                   nt_i,
                   nt_ret, nt_failed, nt_log, nt_result, nt_serial, nt_data,
                   nt_pkt>>

\* The layer has terminated; the requestor is set up for another exchange
\* (knot_requestor_init with the layer's parameters, a packet to fill).
notify_layer_reset ==
    /\ nt_pc = "layer" /\ nt_state \in {"DONE", "FAIL"}
    /\ nt_data' \in [zone : Zones, soa : Soas \cup {NoSoa}]
    /\ nt_pkt' \in NotifyPkts
    /\ nt_state' = "none"
    /\ nt_produced' = 0
    /\ nt_resp' = NoResponse
    /\ UNCHANGED <<nt_hist, pwvars, bpvars, nsvars, udpvars, pkvars, qvars, avars, nt_pc, nt_conf, nt_empty, nt_zone, nt_r,
                   nt_i,
                   nt_ret, nt_failed, nt_log, nt_result, nt_serial>>

LayerNext == notify_begin \/ notify_produce_step \/ notify_consume
                 \/ notify_layer_reset

LayerInit ==
    /\ nt_pc = "layer" /\ nt_state = "none"
    /\ nt_produced = 0 /\ nt_resp = NoResponse /\ nt_hist = <<>>
    /\ nt_data \in [zone : Zones, soa : Soas \cup {NoSoa}]
    /\ nt_pkt \in NotifyPkts
    /\ nt_conf = <<>> /\ nt_empty = TRUE
    /\ nt_zone = [name |-> "example.", soa |-> "soa1"]
    /\ nt_r = 0 /\ nt_i = 0 /\ nt_ret = "KNOT_EOK" /\ nt_failed = FALSE
    /\ nt_log = <<>> /\ nt_result = "none" /\ nt_serial = FALSE

\* ---- send_notify and event_notify
MaxRemotes == 2
MaxAddrs == 2

\* Error codes knot_requestor_exec can return besides KNOT_EOK.
ExecErrors == {"KNOT_ETIMEOUT", "KNOT_ECONN"}

\* Extended rcodes of the response (0 also when there is no response).
ExtRcodes == {0, 5}

\* knot_requestor_exec with the NOTIFY layer: the exchange fails with an
\* error code, or a response arrives and notify_consume ends the layer with
\* KNOT_STATE_DONE whatever the response says, which completes with KNOT_EOK.
knot_requestor_exec ==
    [ret : {"KNOT_EOK"} \cup ExecErrors, rcode : ExtRcodes]

\* Faulty variant: a response with a non-zero rcode makes the attempt fail.
send_notify_ret_by_rcode(ret, rcode) ==
    IF rcode = 0 THEN ret ELSE "KNOT_ERROR"

\* Line 722: what send_notify returns after the exchange.
send_notify_ret(ret, rcode) == ret

\* Faulty variant: the response's rcode is not looked at.
notify_serial_set_on_ok(ret, rcode) == ret = "KNOT_EOK"

\* Line 703: the condition under which last_notified_serial is stored.
notify_serial_set(ret, rcode) == ret = "KNOT_EOK" /\ rcode = 0

\* Lines 672-723: the possible outcomes of one send_notify call.
\*   exec   - knot_requestor_exec was run
\*   serial - zone->timers.last_notified_serial was set
send_notify(zone) ==
    LET data == [zone |-> zone.name, soa |-> zone.soa]
        pkt  == notify_produce(data, query_init_pkt(<<>>))
    IN  {[ret |-> "KNOT_ENOMEM", exec |-> FALSE, exec_ret |-> "none", rcode |-> 0,
          serial |-> FALSE, logged |-> "none", data |-> data, pkt |-> pkt]}
        \cup
        {[ret |-> send_notify_ret(x.ret, x.rcode), exec |-> TRUE,
          exec_ret |-> x.ret, rcode |-> x.rcode,
          serial |-> notify_serial_set(x.ret, x.rcode),
          logged |-> IF notify_serial_set(x.ret, x.rcode) THEN "serial"
                     ELSE IF x.rcode = 0 THEN "failed"
                     ELSE "server responded with error",
          data |-> data, pkt |-> pkt] : x \in knot_requestor_exec}

\* Faulty variant: the address loop goes on after a success.
notify_break_never(ret) == FALSE

\* Lines 752-754: the address loop stops at the first success.
notify_break(ret) == ret = "KNOT_EOK"

\* Lines 729-733.
event_notify_begin ==
    /\ nt_pc = "start"
    /\ nt_failed' = FALSE
    /\ IF nt_empty
         THEN nt_pc' = "returned" /\ nt_result' = "KNOT_EOK" /\ nt_r' = nt_r
         ELSE nt_pc' = "while" /\ nt_r' = 1 /\ nt_result' = nt_result
    /\ UNCHANGED <<ntaux, pwvars, bpvars, nsvars, udpvars, pkvars, qvars, avars, nt_conf, nt_empty, nt_zone, nt_i,
                   nt_ret, nt_log, nt_serial, nt_data, nt_pkt, nt_state>>

\* Lines 743-747: the iterator has a remote; its address count is read.
event_notify_remote ==
    /\ nt_pc = "while" /\ nt_r <= Len(nt_conf)
    /\ nt_ret' = "KNOT_EOK" /\ nt_i' = 0 /\ nt_log' = <<>>
    /\ nt_pc' = "for"
    /\ UNCHANGED <<ntaux, pwvars, bpvars, nsvars, udpvars, pkvars, qvars, avars, nt_conf, nt_empty, nt_zone, nt_r,
                   nt_failed, nt_result, nt_serial, nt_data, nt_pkt, nt_state>>

\* Lines 749-755: one iteration of the address loop.
event_notify_addr ==
    /\ nt_pc = "for" /\ nt_i < nt_conf[nt_r]
    /\ \E o \in send_notify(nt_zone) :
          /\ nt_ret' = o.ret
          /\ nt_log' = Append(nt_log, [addr |-> nt_i, ret |-> o.ret,
                                       exec |-> o.exec, exec_ret |-> o.exec_ret,
                                       rcode |-> o.rcode, serial |-> o.serial,
                                       logged |-> o.logged])
          /\ nt_serial' = (nt_serial \/ o.serial)
          /\ nt_data' = o.data /\ nt_pkt' = o.pkt
          /\ IF notify_break(o.ret)
               THEN nt_pc' = "endfor" /\ nt_i' = nt_i
               ELSE nt_pc' = "for" /\ nt_i' = nt_i + 1
    /\ UNCHANGED <<ntaux, pwvars, bpvars, nsvars, udpvars, pkvars, qvars, avars, nt_conf, nt_empty, nt_zone, nt_r,
                   nt_failed, nt_result, nt_state>>

\* Faulty variant: only the remote just left counts.
notify_failed_last(failed, ret) == ret # "KNOT_EOK"

\* Lines 757-759: failed after a remote's address loop ended with ret.
notify_failed(failed, ret) == failed \/ ret # "KNOT_EOK"

\* Lines 757-761: after the address loop.
event_notify_next ==
    /\ \/ nt_pc = "endfor"
       \/ nt_pc = "for" /\ nt_i >= nt_conf[nt_r]
    /\ nt_failed' = notify_failed(nt_failed, nt_ret)
    /\ nt_hist' = Append(nt_hist,
                         [attempts |-> Len(nt_log),
                          ok |-> \E k \in 1..Len(nt_log) :
                                    nt_log[k].ret = "KNOT_EOK"])
    /\ nt_r' = nt_r + 1
    /\ nt_pc' = "while"
    /\ UNCHANGED <<nt_produced, nt_resp, pwvars, bpvars, nsvars, udpvars, pkvars, qvars, avars, nt_conf, nt_empty, nt_zone, nt_i,
                   nt_ret, nt_log, nt_result, nt_serial, nt_data, nt_pkt, nt_state>>

\* Line 764.
event_notify_return ==
    /\ nt_pc = "while" /\ nt_r > Len(nt_conf)
    /\ nt_result' = IF nt_failed THEN "KNOT_ERROR" ELSE "KNOT_EOK"
    /\ nt_pc' = "returned"
    /\ UNCHANGED <<ntaux, pwvars, bpvars, nsvars, udpvars, pkvars, qvars, avars, nt_conf, nt_empty, nt_zone, nt_r, nt_i,
                   nt_ret, nt_failed, nt_log, nt_serial, nt_data, nt_pkt, nt_state>>

NotifyInit ==
    /\ nt_pc = "start"
    /\ nt_conf \in UNION {[1..n -> 0..MaxAddrs] : n \in 0..MaxRemotes}
    /\ nt_empty \in BOOLEAN
    /\ nt_zone \in [name : Zones, soa : Soas]
    /\ nt_r = 0 /\ nt_i = 0 /\ nt_ret = "KNOT_EOK" /\ nt_failed = FALSE
    /\ nt_log = <<>> /\ nt_result = "none" /\ nt_serial = FALSE
    /\ nt_data = [zone |-> "example.", soa |-> NoSoa]
    /\ nt_pkt = query_init_pkt(<<>>)
    /\ nt_state = "none"
    /\ nt_produced = 0 /\ nt_resp = NoResponse /\ nt_hist = <<>>

\* The notify variables where event_notify is not looked at.
NotifyIdle ==
    /\ NotifyInit
    /\ nt_conf = <<>> /\ nt_empty = TRUE
    /\ nt_zone = [name |-> "example.", soa |-> "soa1"]

NotifyNext == event_notify_begin \/ event_notify_remote \/ event_notify_addr
                  \/ event_notify_next \/ event_notify_return

\* ================================== QUIC connection table (1178-1248)
\* Sizes are scaled: a byte has one bit, a uint64_t has WordLen bytes, an int
\* has IntLen bytes, a connection ID has at most MaxCidLen bytes.
WordLen == 2
IntLen == 1
MaxCidLen == 3
NBuckets == 2
MaxConns == 2

Bytes == 0..1
\* Connection IDs of at least one word (a client's first DCID has at least
\* 8 bytes, the server's own have QUIC_SV_SCIDLEN).
DCIDs == UNION {[1..n -> Bytes] : n \in WordLen..MaxCidLen}
Buckets == 0..(NBuckets - 1)
NoConn == 0

RECURSIVE Xor(_, _)
Xor(a, b) ==
    IF a = 0 THEN b
    ELSE IF b = 0 THEN a
    ELSE ((a + b) % 2) + 2 * Xor(a \div 2, b \div 2)

\* The uint64_t read at byte offset off (little endian).
WordAt(data, off) ==
    LET RECURSIVE val(_)
        val(k) == IF k > WordLen THEN 0
                  ELSE data[off + k] * 2^(k - 1) + val(k + 1)
    IN val(1)

\* What a build makes of a shift by the width of int or more: the count is
\* taken modulo the width, the result is 0, or the shift is done in 64 bits.
Builds == {"masked", "zero", "wide"}

\* (*it2) << (shift * 8) of line 1219, the byte promoted to int: a shift by
\* the width of int or more is undefined and yields what the build yields.
ShiftByte(ub, byte, shift) ==
    IF shift >= IntLen
    THEN CASE ub = "masked" -> byte * 2^(shift % IntLen)
           [] ub = "zero" -> 0
           [] ub = "wide" -> byte * 2^shift
    ELSE byte * 2^shift

\* Lines 1207-1222.
knot_quic_conn_hash(ub, dcid) ==
    LET size == IF Len(dcid) < MaxCidLen THEN Len(dcid) ELSE MaxCidLen
        nwords == size \div WordLen
        RECURSIVE words(_)
        words(k) == IF k >= nwords THEN 0
                    ELSE Xor(WordAt(dcid, k * WordLen), words(k + 1))
        RECURSIVE tail(_, _)
        tail(pos, shift) ==
            IF pos > size THEN 0
            ELSE Xor(ShiftByte(ub, dcid[pos], shift), tail(pos + 1, shift - 1))
    IN Xor(words(0), tail(nwords * WordLen + 1, WordLen - 1))

TableEntries(table) == UNION {{table[b][k] : k \in 1..Len(table[b])} : b \in Buckets}

\* Faulty variant: the new entry goes to the first bucket whatever the hash.
knot_quic_table_add_first_bucket(ub, table, dcid, id) ==
    [table EXCEPT ![0] = <<[dcid |-> dcid, id |-> id]>> \o @]

\* Faulty variant: the new entry is not linked to the chain it heads, which
\* drops the entries that were in the bucket.
knot_quic_table_add_unlinked(ub, table, dcid, id) ==
    LET hash == knot_quic_conn_hash(ub, dcid) % NBuckets
    IN [table EXCEPT ![hash] = <<[dcid |-> dcid, id |-> id]>>]

\* Lines 1224-1235 when calloc succeeds: the table with the new entry, which
\* has the identity id, at the head of the chain of its bucket.
knot_quic_table_add(ub, table, dcid, id) ==
    LET hash == knot_quic_conn_hash(ub, dcid) % NBuckets
    IN [table EXCEPT ![hash] = <<[dcid |-> dcid, id |-> id]>> \o @]

\* Lines 1237-1248: the id of the first entry of the bucket's chain whose
\* DCID equals dcid, NoConn for NULL.
knot_quic_table_find(ub, table, dcid) ==
    LET hash == knot_quic_conn_hash(ub, dcid) % NBuckets
        chain == table[hash]
        hits == {k \in 1..Len(chain) : chain[k].dcid = dcid}
    IN IF hits = {} THEN NoConn
       ELSE chain[CHOOSE k \in hits : \A j \in hits : k <= j].id

\* ---- quic_recvfrom_recv (1425-1488)
PktKinds == {"initial", "long", "short", "unsupported_version", "malformed"}
\* A datagram as far as the function reads it: the kind of packet and, where
\* one is decoded, the DCID.
NoDcid == <<>>
Dgrams == [kind : {"initial", "long", "short"}, dcid : DCIDs]
              \cup [kind : {"unsupported_version", "malformed"}, dcid : {NoDcid}]

\* ngtcp2_pkt_decode_version_cid: a long header with a version the server
\* does not support asks for version negotiation, a datagram that is no QUIC
\* packet is an error, any other yields the DCID.
ngtcp2_pkt_decode_version_cid(dg) ==
    CASE dg.kind = "unsupported_version" -> "NGTCP2_ERR_VERSION_NEGOTIATION"
      [] dg.kind = "malformed" -> "NGTCP2_ERR_INVALID_ARGUMENT"
      [] OTHER -> "0"

\* ngtcp2_accept: 0 for a long-header INITIAL packet, an error otherwise.
ngtcp2_accept(dg) == IF dg.kind = "initial" THEN "0" ELSE "-1"

\* Faulty variant: a miss is taken on whatever ngtcp2_accept says.
quic_accepted_any(ret) == TRUE

\* Lines 1464-1469: the switch on the result of ngtcp2_accept.
quic_accepted(ret) == ret = "0"

\* conn is the connection the datagram was given to and dcid its DCID (kept
\* only when there is such a connection).
NoneLast == [decode |-> "none", found |-> NoConn, accept |-> "none",
             conn |-> NoConn, dcid |-> NoDcid, ret |-> "none"]

\* The number of entries in the table.
TableUsage == Cardinality(TableEntries(q_table))

\* Lines 1425-1488 for one datagram dg waiting on the socket. Return values
\* and library results are kept as the text of their constants.
quic_recv_dgram(dg) ==
    LET decode == ngtcp2_pkt_decode_version_cid(dg)
        found  == knot_quic_table_find(q_ub, q_table, dg.dcid)
        accept == ngtcp2_accept(dg)
    IN
    /\ q_pc = "recv"
    /\ q_reply' = "none"
    /\ IF decode = "NGTCP2_ERR_VERSION_NEGOTIATION"
       THEN /\ q_last' = [NoneLast EXCEPT !.decode = decode, !.ret = "0"]
            /\ q_pc' = "after"
            /\ UNCHANGED <<q_table, q_created>>
       ELSE IF decode # "0"
       THEN /\ q_last' = [NoneLast EXCEPT !.decode = decode,
                                          !.ret = "KNOT_NET_ECONNECT"]
            /\ q_pc' = "after"
            /\ UNCHANGED <<q_table, q_created>>
       ELSE IF found # NoConn
       THEN /\ q_last' = [NoneLast EXCEPT !.decode = "0", !.found = found,
                                          !.conn = found, !.dcid = dg.dcid,
                                          !.ret = "0"]
            /\ q_pc' = "after"
            /\ UNCHANGED <<q_table, q_created>>
       ELSE IF ~quic_accepted(accept)
       THEN /\ q_last' = [NoneLast EXCEPT !.decode = "0", !.accept = accept,
                                          !.ret = "KNOT_NET_ECONNECT"]
            /\ q_pc' = "after"
            /\ UNCHANGED <<q_table, q_created>>
       ELSE \/ /\ TableUsage < MaxConns
               /\ LET id == TableUsage + 1 IN
                     /\ q_table' = knot_quic_table_add(q_ub, q_table, dg.dcid, id)
                     /\ q_created' = IF q_created[dg.dcid] = NoConn
                                       THEN [q_created EXCEPT ![dg.dcid] = id]
                                       ELSE q_created
                     /\ q_last' = [NoneLast EXCEPT !.decode = "0", !.accept = accept,
                                                   !.conn = id, !.dcid = dg.dcid,
                                                   !.ret = "0"]
               /\ q_pc' = "after"
            \/ \* calloc fails in knot_quic_table_add: conn is NULL and is
               \* dereferenced at 1477-1482; the worker crashes, or goes on
               \* where the build dropped the unused read.
               /\ q_last' = [NoneLast EXCEPT !.decode = "0", !.accept = accept]
               /\ q_pc' \in {"crashed", "after"}
               /\ UNCHANGED <<q_table, q_created>>

\* A datagram is read from the socket and processed.
quic_recvfrom_recv_dgram ==
    /\ \E dg \in Dgrams : quic_recv_dgram(dg)
    /\ UNCHANGED <<pwvars, bpvars, nsvars, udpvars, pkvars, ntvars, avars, q_ub>>

\* Lines 1437-1440: recvmsg fails.
quic_recvfrom_recv_none ==
    /\ q_pc = "recv"
    /\ q_last' = [NoneLast EXCEPT !.ret = "1"]
    /\ q_reply' = "none"
    /\ q_pc' = "after"
    /\ UNCHANGED <<pwvars, bpvars, nsvars, udpvars, pkvars, ntvars, avars, q_table, q_ub, q_created>>

\* Lines 1668-1671 of udp_master: handle and send only when recv returned a
\* positive value.
quic_master_after_recv ==
    /\ q_pc = "after"
    /\ q_reply' = IF q_last.ret = "1"
                    THEN "udp_recvfrom_send" ELSE "none"
    /\ q_pc' = "recv"
    /\ UNCHANGED <<pwvars, bpvars, nsvars, udpvars, pkvars, ntvars, avars, q_table, q_ub, q_created, q_last>>

\* Line 1371 (the table, zeroed by calloc) and the build.
QuicInit ==
    /\ q_pc = "recv"
    /\ q_table = [b \in Buckets |-> <<>>]
    /\ q_ub \in Builds
    /\ q_created = [d \in DCIDs |-> NoConn]
    /\ q_last = NoneLast
    /\ q_reply = "none"

\* The QUIC variables where the connection table is not looked at.
QuicIdle == QuicInit /\ q_ub = "zero"

QuicNext == quic_recvfrom_recv_dgram \/ quic_recvfrom_recv_none
                \/ quic_master_after_recv

\* ===================== ns_answer_request: the response it returns (29-104)
\* dnss_create_response(query, answers, count, &response): the response to
\* query built from the records it is given. Without records (NULL, 0) the
\* response is empty ("creating empty response", line 61): the function is
\* given neither the zone nor its SOA, and the same call is made for a name
\* that does not exist and for a name without an rrset of the asked type.
create_response(empty_rcode, qry, answers) ==
    IF answers = NoRRSet
    THEN [written |-> "whole", rcode |-> empty_rcode, tc |-> FALSE,
          question |-> <<qry>>, answer |-> <<>>, authority |-> <<>>]
    ELSE [written |-> "whole", rcode |-> "NOERROR", tc |-> FALSE,
          question |-> <<qry>>,
          answer |-> <<[name |-> answers.name, type |-> answers.type]>>,
          authority |-> <<>>]

\* dnss_create_error_response(query, &response): the SERVFAIL response of
\* line 88.
dnss_create_error_response(qry) ==
    [written |-> "whole", rcode |-> "SERVFAIL", tc |-> FALSE,
     question |-> <<qry>>, answer |-> <<>>, authority |-> <<>>]

\* response_wire before anything is written to it. The field written tells
\* whether the buffer holds a whole encoded message ("whole"), nothing
\* ("unwritten") or an incomplete encoding ("partial"); the other fields are
\* those of the message it holds.
NoWire == [written |-> "unwritten", rcode |-> "none", tc |-> FALSE,
           question |-> <<>>, answer |-> <<>>, authority |-> <<>>]

\* What response_wire holds after a dnss_wire_format call that failed:
\* nothing, or an incomplete encoding.
FailedWire == {NoWire, [NoWire EXCEPT !.written = "partial"]}

\* What a call did. allocated and destroyed are the packet objects the call
\* got from dnss_parse_query and dnss_create_empty_packet and those it handed
\* to dnss_destroy_packet.
NoOut == [query |-> NoQuery, node |-> NoNode, failed |-> "none",
          wire1 |-> "none", ret |-> 0, allocated |-> {}, destroyed |-> {}]

\* The call allocated the packets in a and destroyed those in d.
Packets(out, a, d) == [out EXCEPT !.allocated = a, !.destroyed = d]

\* Lines 29-104: the outcomes of one call on a query wire that parses to
\* qry (NoQuery: it does not parse, or has no question), each with the
\* position the call ends in and the contents of response_wire.
ns_answer_request(ver, empty_rcode, qry) ==
    LET node    == zdb_find_name(ver, qry.qname)
        answers == IF node = NoNode THEN NoRRSet
                   ELSE zn_find_rrset(node, qry.qtype)
        resp    == create_response(empty_rcode, qry, answers)
        out     == [NoOut EXCEPT !.query = qry, !.node = node]
        both    == {"query", "response"}
    IN IF qry = NoQuery
       THEN
       \* 35-38: dnss_parse_query returns NULL
       {[pc |-> "returned", wire |-> NoWire,
         out |-> [NoOut EXCEPT !.failed = "parse", !.ret = -1]]}
       \cup
       \* 35-38: the query is parsed and has no question (qdcount <= 0)
       {[pc |-> "returned", wire |-> NoWire,
         out |-> Packets([NoOut EXCEPT !.failed = "noquestion", !.ret = -1],
                         {"query"}, {})]}
       ELSE
       \* 53-58: dnss_create_empty_packet returns NULL
       {[pc |-> "returned", wire |-> NoWire,
         out |-> Packets([out EXCEPT !.failed = "alloc", !.ret = -1],
                         {"query"}, {"query"})]}
       \cup
       \* 62-67, 72-78: dnss_create_response fails
       {[pc |-> "returned", wire |-> NoWire,
         out |-> Packets([out EXCEPT !.failed = "create", !.ret = -1],
                         both, both)]}
       \cup
       \* 87, 98-103: the response is encoded
       {[pc |-> "returned", wire |-> resp,
         out |-> Packets([out EXCEPT !.wire1 = "ok", !.ret = 0], both, both)]}
       \cup
       \* 87-92: the response does not fit and the error response cannot be
       \* created
       {[pc |-> "returned", wire |-> w,
         out |-> Packets([out EXCEPT !.wire1 = "fail",
                                     !.failed = "error_response", !.ret = -1],
                         both, both)] : w \in FailedWire}
       \cup
       \* 93-95: the error response is encoded (res = 0) and the assertion
       \* res != 0 fails
       {[pc |-> "aborted", wire |-> dnss_create_error_response(qry),
         out |-> Packets([out EXCEPT !.wire1 = "fail"], both, {})]}
       \cup
       \* 93-103: encoding the error response fails too (res != 0), the
       \* assertion holds and the call returns 0
       {[pc |-> "returned", wire |-> w,
         out |-> Packets([out EXCEPT !.wire1 = "fail", !.ret = 0], both, both)] :
            w \in FailedWire}

\* One call of ns_answer_request.
ns_answer_request_call ==
    /\ a_pc = "call"
    /\ \E qry \in [qname : QNames, qtype : QTypes] \cup {NoQuery} :
          \E o \in ns_answer_request(a_ver, a_empty_rcode, qry) :
             /\ a_pc' = o.pc
             /\ a_out' = o.out
             /\ a_wire' = o.wire
    /\ UNCHANGED <<pwvars, bpvars, nsvars, udpvars, pkvars, ntvars, qvars, a_ver, a_empty_rcode>>

\* The caller is done with the response; the zone database may have been
\* replaced before the next query.
ns_answer_request_next ==
    /\ a_pc = "returned"
    /\ a_pc' = "call"
    /\ a_out' = NoOut
    /\ a_wire' = NoWire
    /\ a_ver' \in Versions
    /\ UNCHANGED <<pwvars, bpvars, nsvars, udpvars, pkvars, ntvars, qvars, a_empty_rcode>>

AnswerInit ==
    /\ a_pc = "call"
    /\ a_ver \in Versions
    /\ a_empty_rcode \in {"NOERROR", "NXDOMAIN"}
    /\ a_out = NoOut
    /\ a_wire = NoWire

\* The variables of the call where the response contents are not looked at.
AnswerIdle == AnswerInit /\ a_ver = 0 /\ a_empty_rcode = "NOERROR"

AnswerNext == ns_answer_request_call \/ ns_answer_request_next

\* ------------------------------------------------------------ best_param
\* Lines 184-271. A string is a sequence of characters; the byte after its
\* last character is the terminating zero.

MaxName == 2

MaxTbl == 2

Chars == {"a", "b"}

NUL == "NUL"

RECURSIVE SeqsUpTo(_, _)
SeqsUpTo(S, n) ==
    IF n = 0 THEN {<<>>}
    ELSE LET shorter == SeqsUpTo(S, n - 1)
         IN shorter \cup {Append(q, x) : q \in {t \in shorter : Len(t) = n - 1},
                                         x \in S}

\* The names a table entry can hold and the strings looked up.
Names == SeqsUpTo(Chars, MaxName)

\* The tables: the names of the entries before the one whose name is NULL.
Tables == SeqsUpTo(Names, MaxTbl)

\* s[i] of the C string s, i counted from 0.
CharAt(s, i) == IF i < Len(s) THEN s[i + 1] ELSE NUL

\* Lines 207-211: the characters of str from position i to its end.
RECURSIVE cmp_rest(_, _, _)
cmp_rest(str, i, rest) ==
    IF CharAt(str, i + rest) # NUL THEN cmp_rest(str, i, rest + 1) ELSE rest

\* Lines 198-217: one round of the loop of cmp_prefix with index i.
RECURSIVE cmp_prefix_at(_, _, _, _)
cmp_prefix_at(pref, pref_len, str, i) ==
    IF CharAt(pref, i) # CharAt(str, i) THEN -1
    ELSE IF i + 1 = pref_len THEN cmp_rest(str, i + 1, 0)
    ELSE IF CharAt(str, i + 1) = NUL THEN -1
    ELSE cmp_prefix_at(pref, pref_len, str, i + 1)

\* Lines 194-218.
cmp_prefix(pref, pref_len, str) == cmp_prefix_at(pref, pref_len, str, 0)

\* Line 240.
INT_MAX == 2147483647

\* Line 254: the test that lets a longer name replace the best so far.
better_match(ret, best_match) == ret < best_match

\* Lines 242-260: the loop from entry i (counted from 1 here, position i - 1
\* in the table) on, with the values of the three locals.
RECURSIVE best_param_loop(_, _, _, _, _, _, _)
best_param_loop(str, str_len, tbl, i, best_pos, best_match, matches) ==
    IF i > Len(tbl)
    THEN [best_pos |-> best_pos, matches |-> matches]
    ELSE LET ret == cmp_prefix(str, str_len, tbl[i]) IN
         IF ret = -1
         THEN best_param_loop(str, str_len, tbl, i + 1, best_pos, best_match,
                              matches)
         ELSE IF ret = 0
         THEN best_param_loop(str, str_len, tbl, i + 1, i - 1, 0, 1)
         ELSE IF better_match(ret, best_match)
         THEN best_param_loop(str, str_len, tbl, i + 1, i - 1, ret, matches + 1)
         ELSE best_param_loop(str, str_len, tbl, i + 1, best_pos, best_match,
                              matches + 1)

Err(code) == [code |-> code, pos |-> -1]

\* Lines 231-271: the return value and what is stored to *unique.
best_param(in) ==
    IF in.str_null \/ in.len = 0 \/ in.tbl_null
    THEN [ret |-> Err("KNOT_EINVAL"), unique |-> "unset"]
    ELSE LET l == best_param_loop(in.str, in.len, in.tbl, 1, -1, INT_MAX, 0) IN
         IF l.matches = 0
         THEN [ret |-> Err("KNOT_ENOTSUP"), unique |-> "unset"]
         ELSE [ret |-> [code |-> "pos", pos |-> l.best_pos],
               unique |-> IF l.matches = 1 THEN "true" ELSE "false"]

\* The arguments of a call with a string and a table.
ParamInput(str, len, tbl) ==
    [str_null |-> FALSE, str |-> str, len |-> len, tbl_null |-> FALSE, tbl |-> tbl]

\* The arguments of a call with NULL for the string or for the table.
NullInputs ==
    {[str_null |-> sn, str |-> <<>>, len |-> k, tbl_null |-> tn, tbl |-> <<>>] :
        sn \in BOOLEAN, k \in 0..1, tn \in BOOLEAN} \ {ParamInput(<<>>, 1, <<>>)}

NoRet == [code |-> "none", pos |-> -1]

best_param_call ==
    /\ bp_pc = "call"
    /\ LET o == best_param(bp_in) IN
          /\ bp_ret' = o.ret
          /\ bp_unique' = o.unique
    /\ bp_pc' = "returned"
    /\ UNCHANGED <<pwvars, nsvars, udpvars, pkvars, ntvars, qvars, avars, bp_in>>

ParamInit ==
    /\ bp_pc = "call"
    /\ \/ \E str \in Names, tbl \in Tables : \E len \in 0..Len(str) :
             bp_in = ParamInput(str, len, tbl)
       \/ bp_in \in NullInputs
    /\ bp_ret = NoRet
    /\ bp_unique = "unset"

ParamIdle ==
    /\ bp_pc = "call" /\ bp_ret = NoRet /\ bp_unique = "unset"
    /\ bp_in = [str_null |-> TRUE, str |-> <<>>, len |-> 0, tbl_null |-> TRUE,
                tbl |-> <<>>]

ParamNext == best_param_call

\* ----------------------------------------------------- params_parse_wait
\* Lines 446-474. The argument is a C string, a sequence of characters here.

MaxLead == 2

MaxZeros == 10

\* Line 467 (stdint.h).
INT32_MAX == 2147483647

Digit == ("0" :> 0) @@ ("1" :> 1) @@ ("2" :> 2) @@ ("3" :> 3) @@ ("4" :> 4)
          @@ ("5" :> 5) @@ ("6" :> 6) @@ ("7" :> 7) @@ ("8" :> 8) @@ ("9" :> 9)

IsDigit(c) == c \in DOMAIN Digit

\* The characters the strings that are tried begin with: a sign, digits and a
\* character that is neither.
WaitChars == {"-", "0", "1", "3", "x"}

Zeros(k) == [i \in 1..k |-> "0"]

\* Strings around the two limits the function has to do with, INT32_MAX
\* and INT32_MAX / 1000.
LimitStrings ==
    {<<"2", "1", "4", "7", "4", "8", "3">>,
     <<"2", "1", "4", "7", "4", "8", "4">>,
     <<"2", "1", "4", "7", "4", "8", "3", "6", "4", "7">>,
     <<"2", "1", "4", "7", "4", "8", "3", "6", "4", "8">>}

\* The digits of str from position pos on that strtoll converts.
RECURSIVE DigitCount(_, _)
DigitCount(str, pos) ==
    IF pos <= Len(str) /\ IsDigit(str[pos]) THEN 1 + DigitCount(str, pos + 1)
    ELSE 0

\* The value of the digits str[pos..last] added to acc. big tells that the
\* number is greater than INT32_MAX, which is all the function asks about
\* such a number (strtoll itself saturates at LLONG_MAX).
RECURSIVE Magnitude(_, _, _, _)
Magnitude(str, pos, last, acc) ==
    IF pos > last THEN [big |-> FALSE, val |-> acc]
    ELSE IF acc > (INT32_MAX - Digit[str[pos]]) \div 10
    THEN [big |-> TRUE, val |-> INT32_MAX]
    ELSE Magnitude(str, pos + 1, last, acc * 10 + Digit[str[pos]])

\* Line 456, strtoll(value, &end, 10): an optional sign, then the longest run
\* of digits. end is the number of characters before *end, 0 (end == value)
\* when no digit was converted; neg and mag give the number.
strtoll(str) ==
    LET neg   == Len(str) > 0 /\ str[1] = "-"
        first == IF neg THEN 2 ELSE 1
        n     == DigitCount(str, first)
    IN IF n = 0 THEN [end |-> 0, neg |-> FALSE, mag |-> [big |-> FALSE, val |-> 0]]
       ELSE [end |-> first + n - 1, neg |-> neg,
             mag |-> Magnitude(str, first, first + n - 1, 0)]

\* Lines 462-469: the number that is stored, given the one strtoll returned
\* (num < 1, num > INT32_MAX, or neither).
wait_clamp(neg, mag) ==
    IF neg \/ mag.val < 1 THEN 1
    ELSE IF mag.big THEN INT32_MAX \div 1000
    ELSE mag.val

\* Lines 446-474: the return value and *dst after the call (dst is not NULL).
params_parse_wait(in, dst) ==
    IF in.null THEN [ret |-> "KNOT_EINVAL", dst |-> dst]
    ELSE LET r == strtoll(in.str) IN
         IF r.end = 0 \/ r.end # Len(in.str)
         THEN [ret |-> "KNOT_EINVAL", dst |-> dst]
         ELSE [ret |-> "KNOT_EOK", dst |-> wait_clamp(r.neg, r.mag)]

WaitInput(str) == [null |-> FALSE, str |-> str]

NullWait == [null |-> TRUE, str |-> <<>>]

\* *dst before the call.
DstBefore == -1

params_parse_wait_call ==
    /\ pw_pc = "call"
    /\ LET o == params_parse_wait(pw_in, pw_dst) IN
          /\ pw_ret' = o.ret
          /\ pw_dst' = o.dst
    /\ pw_pc' = "returned"
    /\ UNCHANGED <<bpvars, nsvars, udpvars, pkvars, ntvars, qvars, avars, pw_in>>

\* The strings tried: up to MaxLead characters followed by up to MaxZeros
\* zeros and possibly one more character, and the strings around the limits.
WaitInit ==
    /\ pw_pc = "call"
    /\ \/ \E lead \in SeqsUpTo(WaitChars, MaxLead), k \in 0..MaxZeros,
             last \in SeqsUpTo({"1", "x"}, 1) :
             pw_in = WaitInput(lead \o Zeros(k) \o last)
       \/ \E str \in LimitStrings : pw_in = WaitInput(str)
       \/ pw_in = NullWait
    /\ pw_dst = DstBefore
    /\ pw_ret = "none"

WaitIdle ==
    /\ pw_pc = "call" /\ pw_in = NullWait /\ pw_dst = DstBefore /\ pw_ret = "none"

WaitNext == params_parse_wait_call

\* The variables of the other components while a worker or ns_answer_request
\* is looked at.
AuxIdle == PkIdle /\ NotifyIdle /\ QuicIdle /\ AnswerIdle /\ ParamIdle /\ WaitIdle

\* One UDP worker whose cancellation flag is never set.
InitUdp == NsInit /\ UdpInit /\ AuxIdle

SpecUdp == InitUdp /\ [][UdpWorker]_vars

\* The worker and the thread that may cancel it.
UdpNext == UdpWorker \/ dt_stop

\* The worker thread is scheduled as long as it can take a step.
LiveSpecUdp == InitUdp /\ [][UdpNext]_vars /\ WF_vars(UdpWorker)

\* Readers and writer of the zone database, no UDP worker running.
InitNs == NsInit /\ UdpInit /\ api = "recvfrom" /\ AuxIdle

SpecNs == InitNs /\ [][NsNext]_vars

\* udp_pktinfo_handle applied to received messages, nothing else running.
InitPk == NsInit /\ UdpInit /\ api = "recvfrom" /\ ParamIdle /\ WaitIdle /\ PkInit /\ NotifyIdle /\ QuicIdle
              /\ AnswerIdle

SpecPk == InitPk /\ [][PkNext]_vars

\* event_notify run once for a zone and its configured remotes.
InitNotify == NsInit /\ UdpInit /\ api = "recvfrom" /\ ParamIdle /\ WaitIdle /\ PkIdle /\ NotifyInit /\ QuicIdle
                  /\ AnswerIdle

SpecNotify == InitNotify /\ [][NotifyNext]_vars

\* The NOTIFY layer driven through begin, produce and consume.
InitLayer == NsInit /\ UdpInit /\ api = "recvfrom" /\ ParamIdle /\ WaitIdle /\ PkIdle /\ LayerInit /\ QuicIdle
                 /\ AnswerIdle

SpecLayer == InitLayer /\ [][LayerNext]_vars

\* One QUIC worker receiving datagrams.
InitQuic == NsInit /\ UdpInit /\ api = "recvfrom" /\ ParamIdle /\ WaitIdle /\ PkIdle /\ NotifyIdle
                /\ QuicInit /\ AnswerIdle

SpecQuic == InitQuic /\ [][QuicNext]_vars

\* ns_answer_request called query after query by one thread.
InitAnswer == NsInit /\ UdpInit /\ api = "recvfrom" /\ ParamIdle /\ WaitIdle /\ PkIdle /\ NotifyIdle
                  /\ QuicIdle /\ AnswerInit

SpecAnswer == InitAnswer /\ [][AnswerNext]_vars

\* Calls of best_param with strings and tables of bounded size.
InitParam == NsInit /\ UdpInit /\ api = "recvfrom" /\ PkIdle /\ NotifyIdle
                 /\ QuicIdle /\ AnswerIdle /\ ParamInit /\ WaitIdle

SpecParam == InitParam /\ [][ParamNext]_vars

\* Calls of params_parse_wait with strings of bounded shape.
InitWait == NsInit /\ UdpInit /\ api = "recvfrom" /\ PkIdle /\ NotifyIdle
                /\ QuicIdle /\ AnswerIdle /\ ParamIdle /\ WaitInit

SpecWait == InitWait /\ [][WaitNext]_vars

\* ------------------------------------------------------- properties, SpecNs

\* C2: with the writer reclaiming a version only after the grace period, no
\* reader accesses data of a reclaimed version: every read of the node and of
\* the rrset happens with the thread inside its read-side critical section,
\* a pointer held inside the critical section never refers to a reclaimed
\* version, and after rcu_read_unlock the reader holds no reference to
\* zone-owned data (node is NULL, the response owns copies).
C2_NoReclaimedAccess ==
    /\ ~rcu_uaf
    /\ ~rcu_unprot
    /\ \A r \in Readers :
          /\ (rd_nest[r] > 0 /\ rd_node[r] # NoNode)
                => rd_node[r].ver \notin zdb_reclaimed
          /\ (rd_nest[r] > 0 /\ rd_pc[r] = "respond" /\ rd_answers[r] # NoRRSet)
                => rd_answers[r].ver \notin zdb_reclaimed
          /\ rd_pc[r] = "wire"
                => (rd_node[r] = NoNode /\ rd_resp[r].ref = -1)

\* A reader is about to read the rrset of the version being retired while the
\* writer waits for it.
C2_Witness ==
    \E r \in Readers :
        /\ wr_pc = "grace" /\ r \in wr_wait /\ zdb_cur > wr_old
        /\ rd_pc[r] = "respond" /\ rd_answers[r].ver = wr_old

\* C3: a response never mixes two versions: the node and the rrset of one
\* query, and the records of the response built from them, all come from the
\* version zdb_find_name dereferenced, whenever the writer swaps.
C3_SingleVersion ==
    \A r \in Readers :
        /\ rd_node[r] # NoNode => rd_node[r].ver = rd_seen[r]
        /\ (rd_pc[r] # "idle" /\ rd_answers[r] # NoRRSet)
              => rd_answers[r].ver = rd_seen[r]
        /\ rd_resp[r].answers # NoRRSet
              => /\ rd_resp[r].answers.ver = rd_resp[r].nodever
                 /\ rd_resp[r].nodever = rd_seen[r]

\* A response was built inside a critical section during which the writer
\* swapped in a new version.
C3_Witness ==
    \E r \in Readers :
        /\ rd_pc[r] = "unlock" /\ rd_resp[r].answers # NoRRSet
        /\ rd_lockver[r] < zdb_cur

\* C4 as stated: a query observes the version that was published when its
\* lease was taken (the new one if the lease follows the swap, the prior one
\* if the lease precedes it).
C4_ObservesVersionAtLease ==
    \A r \in Readers : rd_seen[r] # -1 => rd_seen[r] = rd_lockver[r]

\* C4, amended: a query whose lease follows the swap observes the new
\* version; a query whose lease precedes the swap observes the version that is
\* published when zdb_find_name dereferences the database pointer, which is
\* the prior version only if that lookup precedes the swap too. So the
\* observed version is never older than the one published at the lease, and
\* is the one published at the lookup.
C4_ObservesVersionAtLookup ==
    /\ [](\A r \in Readers : rd_seen[r] # -1 => rd_lockver[r] <= rd_seen[r])
    /\ [][\A r \in Readers :
             (rd_seen[r] = -1 /\ rd_seen'[r] # -1) => rd_seen'[r] = zdb_cur]_vars

\* The lease was taken before a swap and the lookup ran after it.
C4_Witness ==
    \E r \in Readers : rd_seen[r] # -1 /\ rd_lockver[r] < rd_seen[r]

\* C5: on every return path the lease is not held: an execution made as many
\* rcu_read_unlock calls as rcu_read_lock calls, none of either when the query
\* did not parse or had no question and one of each otherwise, and the lease
\* is released before the response is written out and returned.
C5_LeaseReleased ==
    \A r \in Readers :
        /\ rd_pc[r] \in {"wire", "ret", "idle"} => rd_nest[r] = 0
        /\ rd_pc[r] = "ret" =>
              /\ rd_locks[r] = rd_unlocks[r]
              /\ rd_locks[r] = (IF rd_query[r] = NoQuery THEN 0 ELSE 1)

\* An error return taken after the lease was acquired.
C5_Witness ==
    \E r \in Readers : rd_pc[r] = "ret" /\ rd_ret[r] = -1 /\ rd_locks[r] = 1

\* ------------------------------------------------------ properties, SpecUdp

\* C1: when udp_handle has left the produce loop (the layer state is neither
\* PRODUCE nor FAIL), the outgoing length tx->iov_len is the answer size if
\* the final state is DONE and 0 for every other final state.
C1_ShipOnlyWhenDone ==
    h_pc = "handled" =>
        /\ ~udp_state_active(h_final)
        /\ h_final = "DONE" => tx[HandleSlot].iov_len = ans_size
        /\ h_final # "DONE" => tx[HandleSlot].iov_len = 0

\* An answer was produced but the layer did not end in DONE.
C1_Witness ==
    h_pc = "handled" /\ h_final # "DONE" /\ ans_size > 0 /\ Produced > 0

\* C6: whatever the parse result and the final layer state, udp_handle calls
\* knot_layer_finish and then mp_flush, once each, before it returns, and the
\* arena is empty whenever udp_handle is not running.
C6_FinishThenFlush ==
    /\ h_pc = "handled" =>
          /\ Len(h_calls) >= 5
          /\ SubSeq(h_calls, Len(h_calls) - 1, Len(h_calls)) = <<"finish", "flush">>
          /\ Len(SelectSeq(h_calls, LAMBDA c : c = "finish")) = 1
          /\ Len(SelectSeq(h_calls, LAMBDA c : c = "flush")) = 1
    /\ arena = 0

\* udp_handle returns for a query that failed to parse and is not answered.
C6_Witness ==
    h_pc = "handled" /\ query.ret = "EMALF" /\ h_final # "DONE"
        /\ tx[HandleSlot].iov_len = 0

\* C7: the send step transmits the responses of exactly the datagrams of the
\* batch whose output length is non-zero.
C7_SendsExactlyNonEmpty ==
    sent.done => sent.slots = sent.nonempty

\* C8: when knot_pkt_parse fails with parsed > 0 the query given to
\* knot_layer_consume has parsed decremented by exactly one, hence
\* parsed < size; otherwise parsed is unchanged; knot_layer_consume is called
\* exactly once.
C8_ParsedDecrement ==
    h_pc = "handled" =>
        /\ (query.ret # "EOK" /\ query.parsed0 > 0)
              => (query.parsed = query.parsed0 - 1 /\ query.parsed < query.size)
        /\ (query.ret = "EOK" \/ query.parsed0 = 0)
              => query.parsed = query.parsed0
        /\ Len(SelectSeq(h_calls, LAMBDA c : c = "consume")) = 1

\* A query whose parsing failed after at least one byte has been consumed.
C8_Witness ==
    h_pc = "handled" /\ query.ret = "EMALF" /\ query.parsed0 > 0

IsRecv(e) == e.op = "recv_pos" \/ e.op = "recv_none"

\* Every batch received in the logged iteration was handled and sent.
BatchesDone ==
    /\ h_pc = "idle"
    /\ \A k \in 1..Len(m_ev) :
          m_ev[k].op = "recv_pos" =>
              /\ k + 2 <= Len(m_ev)
              /\ m_ev[k + 1] = Event("handle", m_ev[k].fd)
              /\ m_ev[k + 2] = Event("send", m_ev[k].fd)

\* C9: the cancellation flag is read at the top of every iteration, before
\* the poll: a poll is only entered from that check with the flag unset, and
\* the check leaves the loop when the flag is set. A worker that left the
\* loop has handled and sent every batch it received, called udp_deinit,
\* mp_delete and fdset_clear in this order and returned. A cancelled worker
\* eventually returns.
C9_CancelledTerminates ==
    /\ [][(m_pc # "poll" /\ m_pc' = "poll") => (m_pc = "check" /\ ~cancelled)]_vars
    /\ [][(m_pc = "check" /\ m_pc' # "check")
             => m_pc' = (IF cancelled THEN "finish" ELSE "poll")]_vars
    /\ [](m_ret = "KNOT_EOK" =>
             /\ m_pc = "returned"
             /\ m_fin = <<"udp_deinit", "mp_delete", "fdset_clear">>
             /\ BatchesDone)
    /\ (cancelled ~> m_pc = "returned")

\* A cancelled worker has returned after an iteration in which it handled a
\* batch.
C9_Witness ==
    /\ cancelled /\ m_pc = "returned" /\ m_ret = "KNOT_EOK"
    /\ \E k \in 1..Len(m_ev) : m_ev[k].op = "send"

\* The iteration's fds before position n that were reported readable.
ReadableBefore(n) == {f \in Fds : f < n /\ m_pollin[f]}

RecvFds == {m_ev[k].fd : k \in {j \in 1..Len(m_ev) : IsRecv(m_ev[j])}}

\* C10: in each loop iteration udp_recv is called once for each fd reported
\* readable, in fd order; udp_handle and then udp_send follow exactly when the
\* count was positive, before the next fd is received from; udp_sweep runs
\* once, after all fds, and only if the API defines it.
C10_IterationOrder ==
    LET n == Len(m_ev)
        Closed(k) == k > 1 /\ m_ev[k - 1].op \in {"poll", "recv_none", "send"}
    IN
    /\ \A k \in 1..n :
          LET e == m_ev[k] IN
          /\ e.op = "poll" <=> k = 1
          /\ IsRecv(e) =>
                /\ m_pollin[e.fd]
                /\ Closed(k)
                /\ \A j \in 1..(k - 1) : IsRecv(m_ev[j]) => m_ev[j].fd < e.fd
          /\ e.op = "handle" => (k > 1 /\ m_ev[k - 1].op = "recv_pos"
                                        /\ m_ev[k - 1].fd = e.fd)
          /\ e.op = "send" => (k > 1 /\ m_ev[k - 1] = Event("handle", e.fd))
          /\ e.op = "sweep" =>
                /\ k = n /\ Closed(k)
                /\ api_has_sweep(api)
                /\ RecvFds = ReadableBefore(NFds + 1)
          /\ (e.op = "recv_pos" /\ k < n) => m_ev[k + 1].op = "handle"
          /\ (e.op = "handle" /\ k < n) => m_ev[k + 1].op = "send"
    /\ (n > 0 /\ m_ev[n].op = "recv_pos") => (m_pc = "handle" /\ h_pc = "idle")
    /\ (n > 0 /\ m_ev[n].op = "handle") => m_pc \in {"handle", "send"}
    /\ m_pc = "events" => RecvFds = ReadableBefore(m_it)
    /\ (n > 0 /\ m_pc \in {"check", "finish", "returned"}) =>
          /\ RecvFds = ReadableBefore(NFds + 1)
          /\ api_has_sweep(api) <=> m_ev[n].op = "sweep"

\* An iteration that handled the batches of two fds and ended with the sweep.
C10_Witness ==
    /\ m_pc = "check" /\ Len(m_ev) > 0 /\ m_ev[Len(m_ev)].op = "sweep"
    /\ \E j, k \in 1..Len(m_ev) :
          /\ m_ev[j].op = "send" /\ m_ev[k].op = "send" /\ m_ev[j].fd < m_ev[k].fd

\* ------------------------------------------------------ properties, SpecPk

\* C11: after udp_pktinfo_handle(rx, tx) the control length of tx equals that
\* of rx; when it is non-zero tx carries the received PKTINFO with the
\* interface index 0 and, for IPv4, spec_dst set to the received destination
\* address; when it is 0 the control pointer of tx is NULL.
C11_PktinfoForSend ==
    pk_pc = "done" =>
        /\ pk_tx.controllen = pk_rx.controllen
        /\ pk_rx.controllen = 0 => (pk_tx.control = "NULL" /\ pk_buf = pk_rcvd)
        /\ pk_rx.controllen > 0 =>
              /\ pk_tx.control = "buf"
              /\ pk_buf.kind = pk_rcvd.kind /\ pk_buf.addr = pk_rcvd.addr
              /\ pk_rcvd.kind \in {"IP_PKTINFO", "IPV6_PKTINFO"} => pk_buf.ifindex = 0
              /\ pk_rcvd.kind = "IP_PKTINFO" => pk_buf.spec_dst = pk_rcvd.addr
              /\ pk_rcvd.kind = "IPV6_PKTINFO" => pk_buf.spec_dst = pk_rcvd.spec_dst
              /\ pk_rcvd.kind = "other" => pk_buf = pk_rcvd

\* An IPv4 PKTINFO received on interface 2 whose spec_dst differed from the
\* destination address has been prepared for sending.
C11_Witness ==
    /\ pk_pc = "done" /\ pk_rx.controllen > 0
    /\ pk_rcvd.kind = "IP_PKTINFO" /\ pk_rcvd.ifindex = 2
    /\ pk_rcvd.spec_dst # pk_rcvd.addr

\* -------------------------------------------------- properties, SpecNotify

\* The address loop of the current remote is over.
AddrLoopOver == nt_pc = "endfor" \/ (nt_pc = "for" /\ nt_i >= nt_conf[nt_r])

\* C12: for each remote event_notify tries the addresses in configuration
\* order, one send_notify per address, and stops at the first address for
\* which send_notify returns KNOT_EOK; later addresses of that remote are
\* not tried, and the loop ends otherwise only when every address failed.
C12_AddressesInOrderUntilSuccess ==
    nt_pc \in {"for", "endfor"} =>
        /\ \A k \in 1..Len(nt_log) : nt_log[k].addr = k - 1
        /\ \A k \in 1..Len(nt_log) :
              nt_log[k].ret = "KNOT_EOK" => (k = Len(nt_log) /\ nt_pc = "endfor")
        /\ Len(nt_log) <= nt_conf[nt_r]
        /\ AddrLoopOver =>
              \/ Len(nt_log) > 0 /\ nt_log[Len(nt_log)].ret = "KNOT_EOK"
              \/ Len(nt_log) = nt_conf[nt_r]

\* A remote with two addresses whose first address failed and whose second
\* succeeded, and one whose first address succeeded with the second untried.
C12_Witness ==
    /\ nt_pc = "endfor" /\ nt_conf[nt_r] = 2
    /\ Len(nt_log) = 2 /\ nt_log[1].ret # "KNOT_EOK" /\ nt_log[2].ret = "KNOT_EOK"

\* C13 as stated: an attempt that send_notify reports as successful had a
\* response with extended rcode 0.
C13_SuccessOnlyRcodeZero ==
    \A k \in 1..Len(nt_log) : nt_log[k].ret = "KNOT_EOK" => nt_log[k].rcode = 0

\* C13 amended: send_notify reports an attempt as successful exactly when
\* knot_requestor_exec ran and returned KNOT_EOK, whatever the extended
\* rcode of the response; rcode 0 is needed in addition only for the serial
\* to be logged and recorded as last notified, and a non-zero rcode is logged
\* as a server error. A remote counts as failed exactly when its last
\* attempt was not successful.
C13_SuccessIsExecOk ==
    /\ \A k \in 1..Len(nt_log) :
          /\ nt_log[k].ret = "KNOT_EOK"
                <=> (nt_log[k].exec /\ nt_log[k].exec_ret = "KNOT_EOK")
          /\ nt_log[k].serial <=> (nt_log[k].ret = "KNOT_EOK" /\ nt_log[k].rcode = 0)
          /\ (nt_log[k].exec /\ nt_log[k].rcode # 0)
                => nt_log[k].logged = "server responded with error"
    /\ (nt_pc \in {"for", "endfor"} /\ AddrLoopOver) =>
          (nt_ret # "KNOT_EOK" <=>
              (Len(nt_log) > 0 /\ nt_log[Len(nt_log)].ret # "KNOT_EOK"))

\* An attempt answered with a non-zero rcode that ended the address loop as
\* a success.
C13_Witness ==
    /\ nt_pc = "endfor" /\ Len(nt_log) > 0
    /\ nt_log[Len(nt_log)].ret = "KNOT_EOK" /\ nt_log[Len(nt_log)].rcode # 0

\* --------------------------------------------------- properties, SpecLayer

\* C14: the packet notify_produce builds has opcode NOTIFY, the AA flag, and
\* one question (zone name, class IN, type SOA); its answer section holds
\* the SOA rrset if and only if data->soa is non-NULL, and then exactly it.
C14_NotifyPacket ==
    nt_state = "CONSUME" =>
        /\ nt_pkt.opcode = "NOTIFY" /\ nt_pkt.aa
        /\ nt_pkt.question =
              <<[qname |-> nt_data.zone, qclass |-> "IN", qtype |-> "SOA"]>>
        /\ nt_data.soa # NoSoa => nt_pkt.answer = <<nt_data.soa>>
        /\ nt_data.soa = NoSoa => nt_pkt.answer = <<>>

\* A packet produced without a SOA hint.
C14_Witness ==
    nt_state = "CONSUME" /\ nt_data.soa = NoSoa /\ nt_pkt.opcode = "NOTIFY"

\* ---------------------------------------------------- properties, SpecQuic

\* The entry that answers for DCID d is the one created for d.
FindIsCreated ==
    \A d \in DCIDs : knot_quic_table_find(q_ub, q_table, d) = q_created[d]

\* Just one entry per DCID, each in the bucket its DCID hashes to.
TableWellFormed ==
    /\ \A b \in Buckets : \A k \in 1..Len(q_table[b]) :
          knot_quic_conn_hash(q_ub, q_table[b][k].dcid) % NBuckets = b
    /\ \A e1, e2 \in TableEntries(q_table) : e1.dcid = e2.dcid => e1 = e2

\* A datagram that was given to a connection was given to the entry created
\* for its DCID.
DispatchedToCreated ==
    q_last.conn # NoConn => q_last.conn = q_created[q_last.dcid]

\* C15: a lookup of DCID d returns the entry that was added for d, from the
\* moment it is added and for ever after, and NULL while none was added; two
\* datagrams with the same DCID are given the same entry.
C15_SameDcidSameConn ==
    /\ [](FindIsCreated /\ TableWellFormed /\ DispatchedToCreated)
    /\ [][\A d \in DCIDs : q_created[d] # NoConn => q_created'[d] = q_created[d]]_vars

\* Two connections in one bucket, and a datagram resolved to the older one
\* (the second of the chain).
C15_Witness ==
    \E b \in Buckets :
        /\ Len(q_table[b]) = 2
        /\ q_pc = "after" /\ q_last.found = q_table[b][2].id

\* C16: the connection table changes only in a call whose datagram missed
\* the table and was accepted by ngtcp2_accept, and then by one new entry; a
\* miss that is not accepted returns KNOT_NET_ECONNECT, the datagram is not
\* handled and the table is as before.
C16_CreateOnlyOnAcceptedMiss ==
    [][/\ q_table' # q_table =>
             /\ q_last'.found = NoConn /\ q_last'.accept = "0"
             /\ TableEntries(q_table') =
                   TableEntries(q_table) \cup {e \in TableEntries(q_table') :
                                                  e.id = q_last'.conn}
             /\ Cardinality(TableEntries(q_table')) = TableUsage + 1
       /\ (q_pc = "recv" /\ q_last'.decode = "0" /\ q_last'.found = NoConn
              /\ q_last'.accept # "0")
             => (q_table' = q_table /\ q_last'.ret = "KNOT_NET_ECONNECT")
       /\ (q_pc = "after" /\ q_last.accept \notin {"0", "none"})
             => (q_table' = q_table /\ q_reply' = "none")]_vars

\* A miss that was not accepted, with a connection in the table.
C16_Witness ==
    /\ q_pc = "after" /\ q_last.decode = "0" /\ q_last.found = NoConn
    /\ q_last.accept = "-1" /\ TableUsage > 0

\* C17: after a datagram with an unsupported version, by the time the worker
\* is back at the socket it has replied with a version-negotiation packet.
C17_VersionNegotiationSent ==
    (q_pc = "recv" /\ q_last.decode = "NGTCP2_ERR_VERSION_NEGOTIATION")
        => q_reply = "version_negotiation"

\* -------------------------------------------------- properties, SpecAnswer

\* response_wire holds an encoded response.
WireIsResponse == a_wire.written = "whole"

\* C18: when the first dnss_wire_format call fails, the call returns a
\* response that has TC set and holds only the header and the question.
C18_TruncatedOnOverflow ==
    a_out.wire1 = "fail" =>
        /\ a_pc = "returned" /\ a_out.ret = 0
        /\ WireIsResponse
        /\ a_wire.tc
        /\ a_wire.question = <<a_out.query>>
        /\ a_wire.answer = <<>> /\ a_wire.authority = <<>>

\* C19: when dnss_create_empty_packet or dnss_create_response fails,
\* response_wire holds a SERVFAIL response to the query.
C19_ServfailOnInternalFailure ==
    a_out.failed \in {"alloc", "create"} =>
        /\ WireIsResponse
        /\ a_wire.rcode = "SERVFAIL"

\* C20: when the name has no node and a response is produced, its rcode is
\* NXDOMAIN and its authority section is exactly the zone's SOA.
C20_NxdomainWithSoa ==
    (a_pc = "returned" /\ a_out.query # NoQuery /\ a_out.node = NoNode
         /\ a_out.wire1 = "ok") =>
        /\ WireIsResponse
        /\ a_wire.rcode = "NXDOMAIN"
        /\ a_wire.authority = <<"SOA">>

\* The answer section a response to the call's query must have: the records
\* of the rrset of the queried type held by the node found, none if the node
\* has no such rrset.
ExpectedAnswer ==
    LET rrset == zn_find_rrset(a_out.node, a_out.query.qtype)
    IN IF rrset = NoRRSet THEN <<>>
       ELSE <<[name |-> rrset.name, type |-> rrset.type]>>

\* C21: when the queried name has a node, the call returns 0 with a response
\* written whose answer section is exactly the node's rrset of the queried
\* type, empty when the node has none.
C21_AnswerIsRrset ==
    (a_pc # "call" /\ a_out.query # NoQuery /\ a_out.node # NoNode) =>
        /\ a_pc = "returned" /\ a_out.ret = 0
        /\ WireIsResponse
        /\ a_wire.answer = ExpectedAnswer

\* C22: every query that udp_handle handles is begun with the flags that
\* forbid AXFR, forbid IXFR and limit the response size, on every API and for
\* every datagram of a batch; the set of flags never varies.
C22_QueryFlags ==
    h_calls # <<>> =>
        /\ h_calls[1] = "begin"
        /\ h_in.flags = {"NO_AXFR", "NO_IXFR", "LIMIT_SIZE"}

\* The second datagram of a recvmmsg batch has been handled.
C22_Witness ==
    /\ api = "recvmmsg" /\ h_i = 2 /\ h_pc = "handled"
    /\ h_calls # <<>> /\ h_in.flags = udp_query_flags

\* ---------------------------------------------------- properties, SpecParam

\* The first len characters of str are a prefix of name.
IsPrefixOf(str, len, name) ==
    Len(name) >= len /\ SubSeq(name, 1, len) = SubSeq(str, 1, len)

\* The entries (counted from 1) whose name has the looked-up prefix.
Matching == {i \in 1..Len(bp_in.tbl) : IsPrefixOf(bp_in.str, bp_in.len, bp_in.tbl[i])}

\* Those of them with the fewest characters after the prefix.
Fewest ==
    {i \in Matching : \A j \in Matching : Len(bp_in.tbl[i]) <= Len(bp_in.tbl[j])}

\* Those of them whose name is the prefix itself.
Exact == {i \in Matching : Len(bp_in.tbl[i]) = bp_in.len}

SetMin(S) == CHOOSE x \in S : \A y \in S : x <= y

ParamInvalid == bp_in.str_null \/ bp_in.len = 0 \/ bp_in.tbl_null

\* The return value in the cases of invalid arguments and of no match.
ParamErrors ==
    /\ ParamInvalid => bp_ret = Err("KNOT_EINVAL")
    /\ (~ParamInvalid /\ Matching = {}) => bp_ret = Err("KNOT_ENOTSUP")

\* C23: best_param returns KNOT_EINVAL if str is NULL, len is 0 or tbl is
\* NULL, KNOT_ENOTSUP if no entry's name has the first len characters of str
\* as a prefix, and otherwise the position of the first of the entries with
\* the fewest characters after the prefix.
C23_FirstOfFewest ==
    bp_pc = "returned" =>
        /\ ParamErrors
        /\ (~ParamInvalid /\ Matching # {}) =>
              bp_ret = [code |-> "pos", pos |-> SetMin(Fewest) - 1]

\* ------------------------------------------- properties, SpecLayer (states)

\* The changes of the layer's state a request may show.
LayerOrder ==
    {<<"none", "PRODUCE">>, <<"PRODUCE", "CONSUME">>, <<"CONSUME", "DONE">>,
     <<"DONE", "none">>}

\* C24: the NOTIFY layer goes from begin to PRODUCE, from produce to CONSUME
\* and from consume to DONE, in that order: one packet is produced per
\* request, the first response, whatever it holds, ends the layer in DONE,
\* and the layer is never in FAIL and never back in PRODUCE.
C24_LayerStates ==
    /\ [](/\ nt_state # "FAIL"
          /\ nt_produced = (IF nt_state \in {"CONSUME", "DONE"} THEN 1 ELSE 0)
          /\ nt_state = "DONE" <=> nt_resp # NoResponse)
    /\ [][nt_state' # nt_state => <<nt_state, nt_state'>> \in LayerOrder]_vars

\* The layer is done after a response with an error rcode and another opcode.
C24_Witness ==
    /\ nt_pc = "layer" /\ nt_state = "DONE" /\ nt_produced = 1
    /\ nt_resp = [rcode |-> 5, opcode |-> "QUERY"]

\* --------------------------------------- properties, SpecAnswer (assertion)

\* C25: the assertion after the second dnss_wire_format call (assert(res !=
\* 0), line 95) holds in every execution that reaches it.
C25_AssertionHolds == a_pc # "aborted"

\* ------------------------------------------- properties, SpecUdp (buffers)

\* An RX slot with its full buffer, address and control lengths.
FullOffer == [iov_len |-> MaxPktSize, namelen |-> "storage", controllen |-> "full"]

\* C26: at every receive call every RX slot offered to the kernel has buffer
\* length KNOT_WIRE_MAX_PKTSIZE, address length sizeof(struct
\* sockaddr_storage) and the control length of the whole PKTINFO buffer,
\* whatever was received, handled and sent before; and the TX slot of a
\* datagram has capacity KNOT_WIRE_MAX_PKTSIZE when the datagram is handled.
C26_FullLengthsAtRecv ==
    /\ \A k \in 1..Len(m_ev) : \A i \in 1..Len(m_ev[k].offered) :
          m_ev[k].offered[i] = FullOffer
    /\ h_calls # <<>> => h_in.txcap = MaxPktSize

\* A recvmmsg call that failed offered its slots after an earlier batch had
\* filled the first one.
C26_Witness ==
    /\ api = "recvmmsg" /\ rx[1].msg_len > 0
    /\ \E k \in 1..Len(m_ev) :
          /\ m_ev[k].op = "recv_none" /\ ~m_ev[k].got
          /\ Len(m_ev[k].offered) = BatchLen

\* ------------------------------------------ properties, SpecNotify (serial)

\* C27: send_notify stores last_notified_serial if and only if the requestor
\* returned KNOT_EOK and the extended rcode of the response is 0, leaves it
\* alone otherwise, and returns what the requestor returned.
C27_SerialIffAcknowledged ==
    /\ [](\A k \in 1..Len(nt_log) :
            /\ nt_log[k].serial <=>
                  (nt_log[k].exec /\ nt_log[k].exec_ret = "KNOT_EOK"
                     /\ nt_log[k].rcode = 0)
            /\ nt_log[k].exec => nt_log[k].ret = nt_log[k].exec_ret
            /\ nt_log[k].serial => nt_serial)
    /\ [][nt_serial' # nt_serial =>
            /\ nt_log' # <<>>
            /\ nt_log'[Len(nt_log')].exec_ret = "KNOT_EOK"
            /\ nt_log'[Len(nt_log')].rcode = 0]_vars

\* The requestor returned KNOT_EOK with a response of rcode 5: send_notify
\* returned KNOT_EOK and the serial was not stored.
C27_Witness ==
    /\ ~nt_serial
    /\ \E k \in 1..Len(nt_log) :
          /\ nt_log[k].exec /\ nt_log[k].exec_ret = "KNOT_EOK"
          /\ nt_log[k].rcode = 5 /\ nt_log[k].ret = "KNOT_EOK"

\* ----------------------------------------- properties, SpecNotify (remotes)

\* Every address of remote r was tried and none of the attempts succeeded.
RemoteFailed(r) ==
    /\ nt_conf[r] > 0
    /\ nt_hist[r].attempts = nt_conf[r]
    /\ ~nt_hist[r].ok

\* C28: event_notify returns KNOT_EOK without sending when the zone contents
\* are empty; otherwise it attempts every configured remote, a failure at one
\* not stopping the later ones, and returns KNOT_ERROR if and only if at some
\* remote every address attempt failed; a remote without addresses does not
\* count as failed.
C28_ErrorIffSomeRemoteFailed ==
    nt_pc = "returned" =>
        IF nt_empty
        THEN nt_result = "KNOT_EOK" /\ nt_hist = <<>> /\ nt_log = <<>>
        ELSE /\ Len(nt_hist) = Len(nt_conf)
             /\ \A r \in 1..Len(nt_conf) :
                   /\ nt_conf[r] > 0 => nt_hist[r].attempts >= 1
                   /\ nt_hist[r].ok \/ nt_hist[r].attempts = nt_conf[r]
             /\ nt_result = "KNOT_ERROR" <=>
                   \E r \in 1..Len(nt_conf) : RemoteFailed(r)
             /\ nt_result \in {"KNOT_ERROR", "KNOT_EOK"}

\* The first remote failed at both addresses, the second was still tried and
\* succeeded, and event_notify returned KNOT_ERROR.
C28_Witness ==
    /\ nt_pc = "returned" /\ ~nt_empty /\ Len(nt_conf) = 2
    /\ nt_conf[1] = 2 /\ RemoteFailed(1)
    /\ nt_hist[2].ok
    /\ nt_result = "KNOT_ERROR"

\* ----------------------------------------- properties, SpecUdp (addresses)

\* C29: with recvmmsg the response to the i-th datagram of a batch is in TX
\* slot i and goes to the source address of the i-th datagram, RX and TX
\* message i naming the same address storage; the storage is cleared only
\* after the batch has been sent.
C29_ResponseToItsSource ==
    /\ []((api = "recvmmsg" /\ sent.done) =>
            \A i \in sent.slots : sent.dst[i] = i)
    /\ []((api = "recvmmsg" /\ m_pc \in {"handle", "send"}) =>
            /\ \A i \in 1..rq_rcvd : addrs[i] = i
            /\ h_pc \in {"next", "handled"} => h_i \in 1..rq_rcvd)
    /\ [][(\E i \in Slots : addrs[i] # 0 /\ addrs'[i] = 0) =>
            (m_pc = "send" /\ sent'.done)]_vars

\* A batch of two datagrams was answered and both responses were sent, the
\* second to the source of the second datagram; the storage is cleared.
C29_Witness ==
    /\ api = "recvmmsg" /\ sent.done /\ sent.slots = {1, 2}
    /\ sent.dst[2] = 2
    /\ \A i \in Slots : addrs[i] = 0

\* ------------------------------------------- properties, SpecUdp (receive)

\* C30: on every API udp_handle and udp_send run in a loop iteration only
\* after the receive call of that iteration obtained at least one datagram
\* from the socket; a receive syscall that failed never leads to the handling
\* or sending of what the buffers held before.
C30_HandleOnlyReceived ==
    \A k \in 1..Len(m_ev) :
        /\ (IsRecv(m_ev[k]) /\ ~m_ev[k].got) => m_ev[k].op = "recv_none"
        /\ m_ev[k].op \in {"handle", "send"} =>
              \E j \in 1..(k - 1) :
                  /\ IsRecv(m_ev[j]) /\ m_ev[j].fd = m_ev[k].fd
                  /\ m_ev[j].got

\* ----------------------------------------- properties, SpecAnswer (packets)

\* C31: every packet object ns_answer_request allocates, the parsed query
\* and the response, is destroyed before the function returns, on every
\* return path.
C31_PacketsDestroyed ==
    a_pc = "returned" => a_out.destroyed = a_out.allocated

\* -------------------------------------------- properties, SpecQuic (table)

\* The chain old is the end of the chain new.
IsTailOf(old, new) ==
    /\ Len(old) <= Len(new)
    /\ SubSeq(new, Len(new) - Len(old) + 1, Len(new)) = old

\* C32: after any sequence of datagrams the connection table has at most one
\* entry per DCID, an entry being added only after a lookup of its DCID
\* missed; every entry is and stays in the bucket of its DCID's hash modulo
\* the table size; no entry is ever removed or replaced.
C32_TableOnlyGrows ==
    /\ [](\A b \in Buckets : \A k \in 1..Len(q_table[b]) :
            /\ knot_quic_conn_hash(q_ub, q_table[b][k].dcid) % NBuckets = b
            /\ \A c \in Buckets : \A j \in 1..Len(q_table[c]) :
                  q_table[c][j].dcid = q_table[b][k].dcid => (c = b /\ j = k))
    /\ [][/\ \A b \in Buckets : IsTailOf(q_table[b], q_table'[b])
          /\ \A b \in Buckets : q_table'[b] # q_table[b] =>
                /\ Len(q_table'[b]) = Len(q_table[b]) + 1
                /\ q_table'[b][1].dcid = q_last'.dcid
                /\ q_last'.found = NoConn
                /\ knot_quic_table_find(q_ub, q_table, q_last'.dcid) = NoConn]_vars

\* A connection was just added at the head of a bucket that held one before.
C32_Witness ==
    /\ q_pc = "after" /\ q_last.found = NoConn /\ q_last.conn # NoConn
    /\ \E b \in Buckets :
          /\ Len(q_table[b]) = 2
          /\ q_table[b][1].id = q_last.conn
          /\ q_table[b][2].dcid # q_last.dcid

\* ------------------------------------------- properties, SpecParam (exact)

\* C33: when the name of some entry is str itself, best_param returns the
\* position of such an entry and stores true to *unique, wherever the entry
\* stands in the table among longer entries with the same prefix.
C33_ExactIsUnique ==
    (bp_pc = "returned" /\ ~ParamInvalid /\ Exact # {}) =>
        /\ bp_ret.code = "pos"
        /\ bp_ret.pos + 1 \in Exact
        /\ bp_unique = "true"

\* ----------------------------------------------------- properties, SpecWait

\* str is a decimal number: an optional minus sign and one digit or more.
IsDecimal(str) ==
    LET first == IF Len(str) > 0 /\ str[1] = "-" THEN 2 ELSE 1
    IN first <= Len(str) /\ \A i \in first..Len(str) : IsDigit(str[i])

\* C34: for a decimal string params_parse_wait succeeds and stores a wait
\* time v >= 1 in seconds with v * 1000, the time in milliseconds, within a
\* signed 32-bit integer; for an empty or non-numeric string it returns
\* KNOT_EINVAL and leaves *dst as it was.
C34_WaitFitsMilliseconds ==
    (pw_pc = "returned" /\ ~pw_in.null) =>
        IF IsDecimal(pw_in.str)
        THEN /\ pw_ret = "KNOT_EOK"
             /\ pw_dst >= 1
             /\ pw_dst <= INT32_MAX \div 1000
        ELSE /\ pw_ret = "KNOT_EINVAL"
             /\ pw_dst = DstBefore
====
